---------------------------- MODULE Spec2Model ----------------------------
(***************************************************************************)
(* A model of one plfsio partition of deltafs: the DoubleBuffering         *)
(* compaction coordinator (Prepare / TryScheduleCompaction / DoCompaction  *)
(* and the __Add, __Flush, __Sync, __Finish entry points), the write       *)
(* buffers and compaction backend it drives, and the directory writer and  *)
(* reader built on top of it.                                              *)
(*                                                                         *)
(* Every action is one critical section of the code (a stretch executed    *)
(* with mu_ held) or one stretch of I/O executed with mu_ released.        *)
(***************************************************************************)
EXTENDS Integers, Sequences, FiniteSets, TLC

(***************************************************************************)
(* Bounds of the model.                                                    *)
(***************************************************************************)
\* Number of API calls issued by the foreground thread.
MaxCalls == 4
\* Append and Flush calls issued to the directory writer.
MaxAppends == 3
\* Explicit EpochFlush calls issued to the directory writer.
MaxEpochs == 1

(***************************************************************************)
(* Program constants.                                                      *)
(***************************************************************************)
\* Write buffers owned by one partition: one active (membuf_), one spare.
NumBufs == 2
\* Bytes taken by the two varint length prefixes of an encoded record.
RecHeader == 1
\* Per-buffer byte budget (total_memtable_budget / 2^lg_parts / 2).
BufBudget == 2

FgThreads == {"f1"}
Workers == {"w1", "w2"}
Threads == FgThreads \cup Workers
Bufs == 1..NumBufs
NoThread == "none"

(***************************************************************************)
(* Status values.                                                          *)
(***************************************************************************)
OK == "OK"
IOError == "IOError"            \* returned by a failed Compact
SyncError == "SyncError"        \* returned by a failed SyncBackend
\* __Finish leaving bg_status_ as SyncBackend returned it.
AssertionFailed_Unpinned(finish_status) == finish_status

\* Status::AssertionFailed("Already finished", finish_status.ToString())
AssertionFailed(finish_status) ==
  CASE finish_status = OK -> "AlreadyFinished(OK)"
    [] finish_status = SyncError -> "AlreadyFinished(SyncError)"
    [] OTHER -> "AlreadyFinished(IOError)"

VARIABLES
  num_compac_scheduled_,  \* uint32_t
  num_compac_completed_,  \* uint32_t
  finished_,              \* bool: __Finish() has been called
  num_bg_compactions_,    \* uint32_t
  bg_status_,             \* Status
  bufs_,                  \* std::deque<void*>: spare buffers
  membuf_,                \* void*: the active buffer
  mu,                     \* holder of mu_ (NoThread when unlocked)
  cvq,                    \* threads blocked in bg_cv_->Wait()
  thr,                    \* per thread: position and locals
  wbuf,                   \* contents of each write buffer
  pool,                   \* thread pool queue of submitted compactions
  log,                    \* tables written by Compact, in write order
  datalog,                \* the data blocks written by Compact, in write order
  nsync,                  \* completed SyncBackend(false) calls
  closed,                 \* SyncBackend(true) has closed the backend
  durable,                \* tables of the log that are durable on storage
  ncalls,                 \* calls issued so far
  hist,                   \* history: the completed compactions, in order
  dir,                    \* directory writer: position, epoch and options
  appended,               \* history: records whose Append returned OK
  got,                    \* the reader's last ReadAll: key and result
  ft,                     \* a filter block under construction or finished
  side,                   \* the side log: its buffer, its file, what was read
  wb,                     \* a write buffer and the iterator over it
  cli                     \* the metadata client: its call, caches and mutex

vars == <<num_compac_scheduled_, num_compac_completed_, finished_,
          num_bg_compactions_, bg_status_, bufs_, membuf_, mu, cvq, thr,
          wbuf, pool, log, datalog, nsync, closed, durable, ncalls, hist, dir, appended, got, ft,
          side, wb, cli>>

dirvars == <<dir, appended, got, ft, side, wb, cli>>

dbvars == <<num_compac_scheduled_, num_compac_completed_, finished_,
            num_bg_compactions_, bg_status_, bufs_, membuf_>>


(***************************************************************************)
(* Write buffers and records.                                              *)
(***************************************************************************)
\* The encoded size of a record with the given payload.
RecSize(payload) == RecHeader + payload
\* Slice(), Slice(): the default k and v of Prepare.
NoRec == [key |-> 0, val |-> 0, sz |-> RecSize(0)]

RECURSIVE Used(_)
\* Bytes taken by the records of a buffer (recs: the buffer's contents).
Used(recs) == IF recs = <<>> THEN 0 ELSE Head(recs).sz + Used(Tail(recs))

\* T::HasRoom(buf, k, v): appending the encoded pair keeps the buffer within
\* its budget.
HasRoom(recs, rec) == Used(recs) + rec.sz <= BufBudget
\* T::IsEmpty(buf)
IsEmpty(recs) == recs = <<>>

\* std::deque back() and pop_back()
Back(q) == q[Len(q)]
PopBack(q) == SubSeq(q, 1, Len(q) - 1)

RECURSIVE InsertSorted_Unstable(_, _)
\* An insertion that puts r in front of the records with its key.
InsertSorted_Unstable(r, s) ==
  IF s = <<>> THEN <<r>>
  ELSE IF Head(s).key < r.key
       THEN <<Head(s)>> \o InsertSorted_Unstable(r, Tail(s))
  ELSE <<r>> \o s

RECURSIVE InsertSorted(_, _)
\* Insert r after every record whose key is <= r.key (stable).
InsertSorted(r, s) ==
  IF s = <<>> THEN <<r>>
  ELSE IF Head(s).key <= r.key THEN <<Head(s)>> \o InsertSorted(r, Tail(s))
  ELSE <<r>> \o s

RECURSIVE FinishAndSort(_)
\* WriteBuffer::FinishAndSort: a stable sort by key.
FinishAndSort(recs) ==
  IF recs = <<>> THEN <<>>
  ELSE InsertSorted(recs[Len(recs)], FinishAndSort(SubSeq(recs, 1, Len(recs) - 1)))

(***************************************************************************)
(* Threads.                                                                *)
(***************************************************************************)
IdleThread ==
  [pc |-> "idle", op |-> "none", force |-> FALSE, rec |-> NoRec, seq |-> 0,
   status |-> OK, wait |-> FALSE, immbuf |-> 0, cseq |-> 0, cstatus |-> OK,
   ret |-> "none"]

\* The state of a directory writer opened with the given options.
NewDir(uk, bpk) ==
  [dpc |-> "idle", epoch |-> 0, dirty |-> FALSE, finished |-> FALSE,
   status |-> OK, na |-> 0, ne |-> 0, nf |-> 0, unique_keys |-> uk,
   bf_bits_per_key |-> bpk]

NoRead == [key |-> 0, val |-> <<>>, done |-> FALSE]

\* No filter block is being built.
NoFilter == [kind |-> "none"]

\* An empty write buffer.
NoBuf ==
  [recs |-> <<>>, n |-> 0, finished |-> FALSE, out |-> <<>>, iter |-> 0,
   at |-> "none"]

\* No metadata client.
NoCli == [pc |-> "none"]

\* The side log as opened: nothing buffered, nothing written, nothing read.
NoSide ==
  [buf |-> <<>>, file |-> <<>>, all |-> <<>>, n |-> 0, finished |-> FALSE,
   rd |-> <<>>, off |-> 0, done |-> FALSE]

Init ==
  /\ num_compac_scheduled_ = 0
  /\ num_compac_completed_ = 0
  /\ finished_ = FALSE
  /\ num_bg_compactions_ = 0
  /\ bg_status_ = OK
  /\ membuf_ = 1
  /\ bufs_ = <<2>>
  /\ mu = NoThread
  /\ cvq = {}
  /\ thr = [t \in Threads |-> IdleThread]
  /\ wbuf = [b \in Bufs |-> <<>>]
  /\ pool = <<>>
  /\ log = <<>>
  /\ datalog = <<>>
  /\ nsync = 0
  /\ closed = FALSE
  /\ durable = 0
  /\ ncalls = 0
  /\ hist = <<>>
  /\ dir = NewDir(TRUE, 0)
  /\ appended = <<>>
  /\ got = NoRead
  /\ ft = NoFilter
  /\ side = NoSide
  /\ wb = NoBuf
  /\ cli = NoCli

\* The calling thread returns st to its caller, which unlocks mu_.
Return(t, st) ==
  /\ thr' = [thr EXCEPT ![t] = [@ EXCEPT !.pc = "idle", !.ret = st]]
  /\ mu' = NoThread

\* The thread moves on with mu_ held.
Goto(t, r) == thr' = [thr EXCEPT ![t] = r] /\ mu' = t

\* bg_cv_->Wait(): release mu_ and block until signalled.
CvWait(t, pc) ==
  /\ thr' = [thr EXCEPT ![t] = [@ EXCEPT !.pc = pc]]
  /\ cvq' = cvq \cup {t}
  /\ mu' = NoThread

\* A caller locks mu_ and calls __Add, __Flush, __Sync or __Finish.
Call(t, op, rec, flag) ==
  /\ t \in DOMAIN thr /\ t \notin Workers
  /\ thr[t].pc = "idle"
  /\ mu = NoThread
  /\ ncalls' = ncalls + 1
  /\ Goto(t, [IdleThread EXCEPT !.pc = "entry", !.op = op, !.rec = rec,
                                !.wait = flag, !.ret = "pending"])
  /\ UNCHANGED <<dbvars, cvq, wbuf, pool, log, datalog, nsync, closed, durable, hist>>

(***************************************************************************)
(* DoubleBuffering::Prepare, TryScheduleCompaction and DoCompaction.       *)
(***************************************************************************)
\* Prepare forgetting bufs_.pop_back().
SpareAfterSwitch_NoPop(q) == q

\* bufs_.pop_back() once Prepare has taken the back of bufs_ as membuf_.
SpareAfterSwitch(q) == PopBack(q)

\* Prepare without its check of bg_status_.
PrepareBranch_NoErrCheck(bg, force, room, nospare) ==
  IF ~force /\ room THEN "room"
  ELSE IF nospare THEN "wait"
  ELSE "switch"

\* Prepare ignoring force.
PrepareBranch_NoForce(bg, force, room, nospare) ==
  IF bg # OK THEN "error"
  ELSE IF room THEN "room"
  ELSE IF nospare THEN "wait"
  ELSE "switch"

\* Prepare testing bufs_.empty() before HasRoom.
PrepareBranch_WaitFirst(bg, force, room, nospare) ==
  IF bg # OK THEN "error"
  ELSE IF nospare THEN "wait"
  ELSE IF ~force /\ room THEN "room"
  ELSE "switch"

\* The branch one iteration of the loop of Prepare takes: bg is bg_status_,
\* room is HasRoom(membuf_, k, v) and nospare is bufs_.empty().
PrepareBranch(bg, force, room, nospare) ==
  IF bg # OK THEN "error"
  ELSE IF ~force /\ room THEN "room"
  ELSE IF nospare THEN "wait"
  ELSE "switch"

\* TryScheduleCompaction handing every buffer to the pool.
RunsInline_Never(empty) == FALSE

\* TryScheduleCompaction: an empty buffer is compacted in the current
\* thread, any other is handed to ScheduleCompaction.
RunsInline(empty) == empty

\* One iteration of the loop of Prepare, run by thread t with mu_ held.
Prepare(t) ==
  /\ thr[t].pc = "prepare"
  /\ mu = t
  /\ LET me == thr[t]
         branch == PrepareBranch(bg_status_, me.force,
                                 HasRoom(wbuf[membuf_], me.rec), bufs_ = <<>>)
     IN CASE branch = "error" ->
               /\ Goto(t, [me EXCEPT !.pc = "prepared", !.status = bg_status_])
               /\ UNCHANGED <<dbvars, cvq, pool>>
          [] branch = "room" ->
               /\ Goto(t, [me EXCEPT !.pc = "prepared"])
               /\ UNCHANGED <<dbvars, cvq, pool>>
          [] branch = "wait" ->
               /\ CvWait(t, "prepare_w")
               /\ UNCHANGED <<dbvars, pool>>
          [] OTHER ->
               \* TryScheduleCompaction(seq, membuf_)
               /\ num_compac_scheduled_' = num_compac_scheduled_ + 1
               /\ num_bg_compactions_' = num_bg_compactions_ + 1
               /\ IF RunsInline(IsEmpty(wbuf[membuf_]))
                  THEN \* DoCompaction(immbuf) in this thread; Compact
                       \* releases mu_ for its I/O
                       /\ thr' = [thr EXCEPT ![t] =
                            [me EXCEPT !.pc = "compact", !.force = FALSE,
                                       !.seq = num_compac_scheduled_ + 1,
                                       !.immbuf = membuf_,
                                       !.cseq = num_compac_scheduled_ + 1]]
                       /\ mu' = NoThread
                       /\ UNCHANGED <<membuf_, bufs_, pool>>
                  ELSE \* ScheduleCompaction(immbuf), then switch buffers
                       /\ pool' = Append(pool, [immbuf |-> membuf_,
                                                cseq |-> num_compac_scheduled_ + 1])
                       /\ membuf_' = Back(bufs_)
                       /\ bufs_' = SpareAfterSwitch(bufs_)
                       /\ Goto(t, [me EXCEPT !.force = FALSE,
                                             !.seq = num_compac_scheduled_ + 1])
               /\ UNCHANGED <<num_compac_completed_, finished_, bg_status_, cvq>>
  /\ UNCHANGED <<wbuf, log, datalog, nsync, closed, durable, ncalls, hist,
                 dirvars>>

\* A thread blocked in bg_cv_->Wait() has been signalled and re-acquires mu_.
CvWake(t) ==
  /\ thr[t].pc \in {"prepare_w", "waitfor_w", "waitall_w"}
  /\ t \notin cvq
  /\ mu = NoThread
  /\ Goto(t, [thr[t] EXCEPT !.pc = CASE thr[t].pc = "prepare_w" -> "prepare"
                                     [] thr[t].pc = "waitfor_w" -> "waitfor"
                                     [] OTHER -> "waitall"])
  /\ UNCHANGED <<dbvars, cvq, wbuf, pool, log, datalog, nsync, closed, durable, ncalls, hist,
                 dirvars>>

\* A pool thread takes the oldest submitted compaction, locks mu_ and enters
\* DoCompaction; Compact releases mu_ for its I/O.
BGWork(w) ==
  /\ w \in Workers
  /\ thr[w].pc = "idle"
  /\ pool # <<>>
  /\ mu = NoThread
  /\ thr' = [thr EXCEPT ![w] = [@ EXCEPT !.pc = "compact",
                                         !.immbuf = Head(pool).immbuf,
                                         !.cseq = Head(pool).cseq]]
  /\ pool' = Tail(pool)
  /\ UNCHANGED <<dbvars, mu, cvq, wbuf, log, datalog, nsync, closed, durable, ncalls, hist,
                 dirvars>>

\* A compaction that writes the meta trailer whatever became of its blocks.
TrailerWritten_Always(ok) == TRUE

\* The meta trailer of a table is written last, when all its data, filter
\* and index bytes are written.
TrailerWritten(ok) == ok

\* The data blocks of the first n records, tagged with their compaction.
DataBlocks(recs, n, cseq) == [i \in 1..n |-> [cseq |-> cseq, rec |-> recs[i]]]

\* T::Compact(immbuf) with mu_ released: sort the buffer and write one table;
\* a table is in the log once its last byte (the meta trailer) is written.
\* The trailer holds where the table's blocks are in the data log.  An I/O
\* error stops the compaction after n of its blocks.
CompactWrites(t, ok, n) ==
  /\ thr[t].pc = "compact"
  /\ n <= Len(wbuf[thr[t].immbuf])
  /\ ok => n = Len(wbuf[thr[t].immbuf])
  /\ thr' = [thr EXCEPT ![t] = [@ EXCEPT !.pc = "compacted",
                                         !.cstatus = IF ok THEN OK ELSE IOError]]
  /\ LET recs == FinishAndSort(wbuf[thr[t].immbuf])
     IN /\ datalog' = datalog \o DataBlocks(recs, n, thr[t].cseq)
        /\ log' = IF TrailerWritten(ok)
                  THEN Append(log, [cseq |-> thr[t].cseq,
                                    epoch |-> dir.epoch, recs |-> recs,
                                    off |-> Len(datalog), nblocks |-> n])
                  ELSE log
  /\ UNCHANGED <<dbvars, mu, cvq, wbuf, pool, nsync, closed, durable, ncalls,
                 hist, dirvars>>

\* A compaction that returns OK, or fails before its first block.
Compact(t, ok) ==
  CompactWrites(t, ok, IF ok THEN Len(wbuf[thr[t].immbuf]) ELSE 0)

\* DoCompaction forgetting bg_cv_->SignalAll().
Signalled_Lost(q) == q

\* bg_cv_->SignalAll(): every thread blocked on bg_cv_ is made runnable.
Signalled(q) == {}

\* DoCompaction forgetting ++num_compac_completed_.
Completed_Missing(n) == n

\* ++num_compac_completed_
Completed(n) == n + 1

\* DoCompaction dropping the status Compact returned.
LatchedStatus_Dropped(prev, status) == prev

\* The status DoCompaction stores in bg_status_ once Compact has returned.
LatchedStatus(prev, status) == status

\* DoCompaction after Compact has returned and re-acquired mu_: count the
\* completion, latch the status, clear and return the buffer, try to launch
\* another compaction (Prepare with force = false and an empty record) and
\* wake every waiter.  A pool thread then leaves BGWork and unlocks mu_; a
\* thread that ran the compaction inline returns into Prepare, which takes
\* the back of bufs_ as the new membuf_.
\* The nested Prepare never waits (bufs_ has just been pushed) and never
\* compacts inline: it switches only when membuf_ has no room for an empty
\* record, and an empty buffer has (RecSize(0) <= BufBudget).
DoCompactionEnd(t) ==
  /\ thr[t].pc = "compacted"
  /\ mu = NoThread
  /\ LET me == thr[t]
         status == LatchedStatus(bg_status_, me.cstatus)
         wbuf1 == [wbuf EXCEPT ![me.immbuf] = <<>>]
         bufs1 == Append(bufs_, me.immbuf)
         again == PrepareBranch(status, FALSE, HasRoom(wbuf1[membuf_], NoRec),
                                bufs1 = <<>>) = "switch"
         seq1 == num_compac_scheduled_ + 1
         membuf2 == IF again THEN Back(bufs1) ELSE membuf_
         bufs2 == IF again THEN SpareAfterSwitch(bufs1) ELSE bufs1
     IN /\ num_compac_completed_' = Completed(num_compac_completed_)
        /\ bg_status_' = status
        /\ wbuf' = wbuf1
        /\ hist' = Append(hist, [cseq |-> me.cseq, status |-> me.cstatus])
        /\ num_compac_scheduled_' = IF again THEN seq1 ELSE num_compac_scheduled_
        /\ num_bg_compactions_' =
             IF again THEN num_bg_compactions_ ELSE num_bg_compactions_ - 1
        /\ pool' = IF again
                   THEN Append(pool, [immbuf |-> membuf_, cseq |-> seq1])
                   ELSE pool
        /\ cvq' = Signalled(cvq)
        /\ IF t \in Workers
           THEN /\ membuf_' = membuf2
                /\ bufs_' = bufs2
                /\ thr' = [thr EXCEPT ![t] = [me EXCEPT !.pc = "idle"]]
                /\ mu' = NoThread
           ELSE /\ membuf_' = Back(bufs2)
                /\ bufs_' = SpareAfterSwitch(bufs2)
                /\ Goto(t, [me EXCEPT !.pc = "prepare"])
  /\ UNCHANGED <<finished_, log, datalog, nsync, closed, durable, ncalls,
                 dirvars>>

(***************************************************************************)
(* __Add, __Flush, __Sync and __Finish.                                    *)
(***************************************************************************)
\* __Add up to its call of Prepare.
AddEntry(t) ==
  /\ thr[t].pc = "entry" /\ thr[t].op = "Add" /\ mu = t
  /\ IF finished_
     THEN Return(t, bg_status_)
     ELSE Goto(t, [thr[t] EXCEPT !.pc = "prepare", !.force = FALSE])
  /\ UNCHANGED <<dbvars, cvq, wbuf, pool, log, datalog, nsync, closed, durable, ncalls, hist,
                 dirvars>>

\* __Add returning OK without AddToBuffer.
AddTail_NoAppend(t) ==
  /\ thr[t].pc = "prepared" /\ thr[t].op = "Add" /\ mu = t
  /\ Return(t, thr[t].status)
  /\ UNCHANGED <<dbvars, cvq, wbuf, pool, log, datalog, nsync, closed, durable, ncalls, hist,
                 dirvars>>

\* __Add calling AddToBuffer(membuf_, v, k).
AddTail_SwappedArgs(t) ==
  /\ thr[t].pc = "prepared" /\ thr[t].op = "Add" /\ mu = t
  /\ wbuf' = IF thr[t].status = OK
             THEN [wbuf EXCEPT ![membuf_] =
                     Append(@, [thr[t].rec EXCEPT !.key = thr[t].rec.val,
                                                  !.val = thr[t].rec.key])]
             ELSE wbuf
  /\ Return(t, thr[t].status)
  /\ UNCHANGED <<dbvars, cvq, pool, log, datalog, nsync, closed, durable, ncalls, hist,
                 dirvars>>

\* __Add after Prepare: AddToBuffer(membuf_, k, v) when Prepare returned OK.
AddTail(t) ==
  /\ thr[t].pc = "prepared" /\ thr[t].op = "Add" /\ mu = t
  /\ wbuf' = IF thr[t].status = OK
             THEN [wbuf EXCEPT ![membuf_] = Append(@, thr[t].rec)]
             ELSE wbuf
  /\ Return(t, thr[t].status)
  /\ UNCHANGED <<dbvars, cvq, pool, log, datalog, nsync, closed, durable, ncalls, hist,
                 dirvars>>

\* __Flush up to its call of Prepare (force defaults to true).
FlushEntry(t) ==
  /\ thr[t].pc = "entry" /\ thr[t].op = "Flush" /\ mu = t
  /\ IF finished_
     THEN Goto(t, [thr[t] EXCEPT !.pc = "prepared", !.status = bg_status_])
     ELSE Goto(t, [thr[t] EXCEPT !.pc = "prepare", !.force = TRUE])
  /\ UNCHANGED <<dbvars, cvq, wbuf, pool, log, datalog, nsync, closed, durable, ncalls, hist,
                 dirvars>>

\* __Flush waiting whatever wait is.
FlushTail_AlwaysWait(t) ==
  /\ thr[t].pc = "prepared" /\ thr[t].op = "Flush" /\ mu = t
  /\ IF thr[t].status = OK
     THEN Goto(t, [thr[t] EXCEPT !.pc = "waitfor"])
     ELSE Return(t, thr[t].status)
  /\ UNCHANGED <<dbvars, cvq, wbuf, pool, log, datalog, nsync, closed, durable, ncalls, hist,
                 dirvars>>

\* __Flush never calling WaitFor.
FlushTail_NoWait(t) ==
  /\ thr[t].pc = "prepared" /\ thr[t].op = "Flush" /\ mu = t
  /\ Return(t, thr[t].status)
  /\ UNCHANGED <<dbvars, cvq, wbuf, pool, log, datalog, nsync, closed, durable, ncalls, hist,
                 dirvars>>

\* __Flush after Prepare.
FlushTail(t) ==
  /\ thr[t].pc = "prepared" /\ thr[t].op = "Flush" /\ mu = t
  /\ IF thr[t].status = OK /\ thr[t].wait
     THEN Goto(t, [thr[t] EXCEPT !.pc = "waitfor"])
     ELSE Return(t, thr[t].status)
  /\ UNCHANGED <<dbvars, cvq, wbuf, pool, log, datalog, nsync, closed, durable, ncalls, hist,
                 dirvars>>

\* __Sync up to its call of Prepare (force = flush).
SyncEntry(t) ==
  /\ thr[t].pc = "entry" /\ thr[t].op = "Sync" /\ mu = t
  /\ IF finished_
     THEN Goto(t, [thr[t] EXCEPT !.pc = "prepared", !.status = bg_status_])
     ELSE Goto(t, [thr[t] EXCEPT !.pc = "prepare", !.force = thr[t].wait])
  /\ UNCHANGED <<dbvars, cvq, wbuf, pool, log, datalog, nsync, closed, durable, ncalls, hist,
                 dirvars>>

\* __Sync going to SyncBackend without WaitFor and WaitForCompactions.
SyncTail_NoWait(t) ==
  /\ thr[t].pc = "prepared" /\ thr[t].op = "Sync" /\ mu = t
  /\ IF thr[t].status # OK
     THEN Return(t, thr[t].status)
     ELSE Goto(t, [thr[t] EXCEPT !.pc = "sync"])
  /\ UNCHANGED <<dbvars, cvq, wbuf, pool, log, datalog, nsync, closed, durable, ncalls, hist,
                 dirvars>>

\* __Sync after Prepare.
SyncTail(t) ==
  /\ thr[t].pc = "prepared" /\ thr[t].op = "Sync" /\ mu = t
  /\ IF thr[t].status # OK
     THEN Return(t, thr[t].status)
     ELSE Goto(t, [thr[t] EXCEPT !.pc = "waitfor"])
  /\ UNCHANGED <<dbvars, cvq, wbuf, pool, log, datalog, nsync, closed, durable, ncalls, hist,
                 dirvars>>

\* __Finish up to the Prepare of its __Flush(false).
FinishEntry(t) ==
  /\ thr[t].pc = "entry" /\ thr[t].op = "Finish" /\ mu = t
  /\ IF finished_
     THEN Return(t, bg_status_)
     ELSE Goto(t, [thr[t] EXCEPT !.pc = "prepare", !.force = TRUE])
  /\ UNCHANGED <<dbvars, cvq, wbuf, pool, log, datalog, nsync, closed, durable, ncalls, hist,
                 dirvars>>

\* __Finish after __Flush(false) has returned: its status is dropped.
FinishTail(t) ==
  /\ thr[t].pc = "prepared" /\ thr[t].op = "Finish" /\ mu = t
  /\ Goto(t, [thr[t] EXCEPT !.pc = "waitall"])
  /\ UNCHANGED <<dbvars, cvq, wbuf, pool, log, datalog, nsync, closed, durable, ncalls, hist,
                 dirvars>>

\* WaitFor(seq): block until num_compac_completed_ >= seq.  __Flush then
\* returns bg_status_; __Sync goes on to WaitForCompactions.
WaitFor(t) ==
  /\ thr[t].pc = "waitfor" /\ mu = t
  /\ IF num_compac_completed_ < thr[t].seq
     THEN CvWait(t, "waitfor_w")
     ELSE /\ IF thr[t].op = "Flush"
             THEN Return(t, bg_status_)
             ELSE Goto(t, [thr[t] EXCEPT !.pc = "waitall"])
          /\ UNCHANGED cvq
  /\ UNCHANGED <<dbvars, wbuf, pool, log, datalog, nsync, closed, durable, ncalls, hist,
                 dirvars>>

\* WaitForCompactions(): block until num_bg_compactions_ is 0.
WaitForCompactions(t) ==
  /\ thr[t].pc = "waitall" /\ mu = t
  /\ IF num_bg_compactions_ > 0
     THEN CvWait(t, "waitall_w")
     ELSE Goto(t, [thr[t] EXCEPT !.pc = "sync"]) /\ UNCHANGED cvq
  /\ UNCHANGED <<dbvars, wbuf, pool, log, datalog, nsync, closed, durable, ncalls, hist,
                 dirvars>>

\* __Wait: wait until there is no outstanding compaction.
WaitEntry(t) ==
  /\ thr[t].pc = "entry" /\ thr[t].op = "Wait" /\ mu = t
  /\ Goto(t, [thr[t] EXCEPT !.pc = "waitall"])
  /\ UNCHANGED <<dbvars, cvq, wbuf, pool, log, datalog, nsync, closed, durable, ncalls, hist,
                 dirvars>>

\* __Wait after WaitForCompactions.
WaitTail(t) ==
  /\ thr[t].pc = "sync" /\ thr[t].op = "Wait" /\ mu = t
  /\ Return(t, bg_status_)
  /\ UNCHANGED <<dbvars, cvq, wbuf, pool, log, datalog, nsync, closed, durable, ncalls, hist,
                 dirvars>>

\* __Sync and __Finish calling SyncBackend without looking at bg_status_.
SyncBegin_Unchecked(t) ==
  /\ thr[t].pc = "sync" /\ thr[t].op \in {"Sync", "Finish"} /\ mu = t
  /\ thr' = [thr EXCEPT ![t] = [@ EXCEPT !.pc = "syncio"]]
  /\ mu' = NoThread
  /\ UNCHANGED <<dbvars, cvq, wbuf, pool, log, datalog, nsync, closed, durable, ncalls, hist,
                 dirvars>>

\* __Sync and __Finish after the waits: call SyncBackend if bg_status_ is OK
\* (it releases mu_ for its I/O), else return the latched status.
SyncBegin(t) ==
  /\ thr[t].pc = "sync" /\ thr[t].op \in {"Sync", "Finish"} /\ mu = t
  /\ IF bg_status_ = OK
     THEN /\ thr' = [thr EXCEPT ![t] = [@ EXCEPT !.pc = "syncio"]]
          /\ mu' = NoThread
          /\ UNCHANGED finished_
     ELSE /\ Return(t, bg_status_)
          /\ finished_' = (finished_ \/ thr[t].op = "Finish")
  /\ UNCHANGED <<num_compac_scheduled_, num_compac_completed_,
                 num_bg_compactions_, bg_status_, bufs_, membuf_, cvq, wbuf,
                 pool, log, datalog, nsync, closed, durable, ncalls, hist,
                 dirvars>>

\* T::SyncBackend(close) with mu_ released: on success everything written
\* to the log so far is on storage.  ("Compaction does not force data to be
\* sync'ed. Sync() does.")
SyncBackend(t, ok) ==
  /\ thr[t].pc = "syncio"
  /\ thr' = [thr EXCEPT ![t] = [@ EXCEPT !.pc = "synced",
                                         !.status = IF ok THEN OK ELSE SyncError]]
  /\ nsync' = IF ok /\ thr[t].op = "Sync" THEN nsync + 1 ELSE nsync
  /\ closed' = (closed \/ (ok /\ thr[t].op = "Finish"))
  /\ durable' = IF ok THEN Len(log) ELSE durable
  /\ UNCHANGED <<dbvars, mu, cvq, wbuf, pool, log, datalog, ncalls, hist,
                 dirvars>>

\* SyncBackend has returned with mu_ re-acquired: __Sync stores and returns
\* its status; __Finish returns it and pins bg_status_ to "Already finished".
SyncEnd(t) ==
  /\ thr[t].pc = "synced"
  /\ mu = NoThread
  /\ IF thr[t].op = "Sync"
     THEN /\ bg_status_' = thr[t].status
          /\ UNCHANGED finished_
     ELSE /\ bg_status_' = AssertionFailed(thr[t].status)
          /\ finished_' = TRUE
  /\ Return(t, thr[t].status)
  /\ UNCHANGED <<num_compac_scheduled_, num_compac_completed_,
                 num_bg_compactions_, bufs_, membuf_, cvq, wbuf, pool, log, datalog,
                 nsync, closed, durable, ncalls, hist,
                 dirvars>>

(***************************************************************************)
(* The partition driven through the DoubleBuffering interface by one       *)
(* foreground thread, with the compactions it submits run by a pool.       *)
(***************************************************************************)
\* Payloads (key + value bytes, in abstract units) of the records added: a
\* buffer holds two small records or one large one.
Payloads == {0, 1}

NewRec(k, payload) == [key |-> k, val |-> ncalls + 1, sz |-> RecSize(payload)]

\* The steps inside the DoubleBuffering calls and of the compaction pool.
DbStep ==
  \/ \E t \in FgThreads : AddEntry(t)
  \/ \E t \in FgThreads : AddTail(t)
  \/ \E t \in FgThreads : FlushEntry(t)
  \/ \E t \in FgThreads : FlushTail(t)
  \/ \E t \in FgThreads : FinishEntry(t)
  \/ \E t \in FgThreads : FinishTail(t)
  \/ \E t \in FgThreads : Prepare(t)
  \/ \E t \in FgThreads : CvWake(t)
  \/ \E t \in FgThreads : WaitForCompactions(t)
  \/ \E t \in FgThreads : SyncBegin(t)
  \/ \E t \in FgThreads, ok \in BOOLEAN : SyncBackend(t, ok)
  \/ \E t \in FgThreads : SyncEnd(t)
  \/ \E w \in Workers : BGWork(w)
  \/ \E t \in Threads, ok \in BOOLEAN : Compact(t, ok)
  \/ \E t \in Threads : DoCompactionEnd(t)

\* The steps only __Flush(wait = true) and __Sync take.
SyncStep ==
  \/ \E t \in FgThreads : SyncEntry(t)
  \/ \E t \in FgThreads : SyncTail(t)
  \/ \E t \in FgThreads : WaitFor(t)

\* A caller of the partition issues its next call.
CallAdd(t, p) ==
  ncalls < MaxCalls /\ Call(t, "Add", NewRec(1, p), FALSE) /\ UNCHANGED dirvars
CallFlush(t, wait) ==
  ncalls < MaxCalls /\ Call(t, "Flush", NoRec, wait) /\ UNCHANGED dirvars
CallSync(t, flush) ==
  ncalls < MaxCalls /\ Call(t, "Sync", NoRec, flush) /\ UNCHANGED dirvars
CallFinish(t) ==
  ncalls < MaxCalls /\ Call(t, "Finish", NoRec, FALSE) /\ UNCHANGED dirvars

DbCall ==
  \/ \E t \in FgThreads, p \in Payloads : CallAdd(t, p)
  \/ \E t \in FgThreads, wait \in BOOLEAN : CallFlush(t, wait)
  \/ \E t \in FgThreads, flush \in BOOLEAN : CallSync(t, flush)
  \/ \E t \in FgThreads : CallFinish(t)

Next == DbCall \/ DbStep \/ SyncStep

\* The steps of a caller inside its call.
FgStep(t) ==
  \/ AddEntry(t) \/ AddTail(t) \/ FlushEntry(t) \/ FlushTail(t)
  \/ FinishEntry(t) \/ FinishTail(t) \/ Prepare(t) \/ CvWake(t)
  \/ WaitForCompactions(t) \/ SyncBegin(t) \/ SyncEnd(t)
  \/ SyncEntry(t) \/ SyncTail(t) \/ WaitFor(t)
  \/ \E ok \in BOOLEAN : SyncBackend(t, ok)
  \/ \E ok \in BOOLEAN : Compact(t, ok)
  \/ DoCompactionEnd(t)

\* The steps of a thread of the compaction pool.
PoolStep(w) ==
  \/ BGWork(w)
  \/ \E ok \in BOOLEAN : Compact(w, ok)
  \/ DoCompactionEnd(w)

\* Every thread that can run eventually runs: the pool runs every scheduled
\* compaction, which returns OK or an error, and a caller that holds or can
\* take mu_ goes on.
Fairness ==
  /\ \A t \in FgThreads : WF_vars(FgStep(t))
  /\ \A w \in Workers : WF_vars(PoolStep(w))

SpecFair == Init /\ [][Next]_vars /\ Fairness

Spec == Init /\ [][Next]_vars

(***************************************************************************)
(* Properties of the compaction coordinator.                               *)
(***************************************************************************)
\* Thread t returns from its call in this step.
Returning(t) == thr[t].pc # "idle" /\ thr'[t].pc = "idle"

\* Compactions submitted or running (in Compact or about to finish).
InFlight ==
  Len(pool) + Cardinality({t \in Threads : thr[t].pc \in {"compact", "compacted"}})

\* The first __Finish has closed the backend and returned OK.
FinishReturnedOK == closed /\ \A t \in Threads : thr[t].pc # "synced"

\* What a call after __Finish must leave alone.
AfterFinishFrame ==
  /\ UNCHANGED <<dbvars, wbuf, pool, log, datalog, nsync, closed, durable>>
  /\ \A t \in Threads : thr'[t].pc \notin {"compact", "syncio"}

\* C1: num_compac_scheduled_ - num_compac_completed_ is 0 or 1 in every
\* state, and it is the number of compactions in flight: at most one
\* compaction of the partition is in flight at any time.
C1_AtMostOneInFlight ==
  /\ num_compac_scheduled_ - num_compac_completed_ \in {0, 1}
  /\ InFlight = num_compac_scheduled_ - num_compac_completed_

\* A quiescent point with a third compaction in flight.
C1_Witness ==
  /\ thr["f1"].pc = "idle"
  /\ num_compac_completed_ = 2
  /\ InFlight = 1

\* C2: compactions complete in the order they were scheduled: the i-th
\* completion is that of sequence number i, num_compac_completed_ counts
\* them, and every table written by a compaction with a sequence number up
\* to num_compac_completed_ is in the log, in sequence order.
C2_FifoCompletion ==
  /\ Len(hist) = num_compac_completed_
  /\ \A i \in 1..Len(hist) :
       /\ hist[i].cseq = i
       /\ hist[i].status = OK => \E j \in 1..Len(log) : log[j].cseq = i
  /\ \A i, j \in 1..Len(log) : i < j => log[i].cseq < log[j].cseq

\* Three compactions have completed, inline and in the pool.
C2_Witness ==
  /\ Len(hist) = 3
  /\ Len(log) = 3
  /\ \E i \in 1..3 : log[i].recs # <<>>
  /\ \E i \in 1..3 : log[i].recs = <<>>

\* C7: once __Finish has returned OK, every step of a later __Add, __Flush
\* or __Sync leaves buffers, counters, pool, log and backend alone, and the
\* call returns the "Already finished" status.
C7_RejectedAfterFinish ==
  [][FinishReturnedOK =>
       /\ AfterFinishFrame
       /\ \A t \in FgThreads :
            Returning(t) /\ thr[t].op \in {"Add", "Flush", "Sync"}
              => thr'[t].ret = "AlreadyFinished(OK)"]_vars

\* An __Add issued after __Finish returned OK has been rejected.
C7_Witness ==
  /\ FinishReturnedOK
  /\ thr["f1"].pc = "idle"
  /\ thr["f1"].op = "Add"
  /\ thr["f1"].ret = "AlreadyFinished(OK)"

\* C8 as claimed: a second __Finish after one that returned OK returns the
\* same result, OK.
C8_SecondFinishSameResult ==
  [][FinishReturnedOK =>
       \A t \in FgThreads :
         Returning(t) /\ thr[t].op = "Finish" => thr'[t].ret = OK]_vars

\* C8 amended: a second __Finish after one that returned OK returns the
\* "Already finished" status and leaves buffers, counters, pool, log and
\* backend alone.
C8_SecondFinishNoEffect ==
  [][FinishReturnedOK /\ (\E t \in FgThreads : thr'[t].op = "Finish") =>
       /\ AfterFinishFrame
       /\ \A t \in FgThreads :
            Returning(t) => thr'[t].ret = "AlreadyFinished(OK)"]_vars

\* A second __Finish has returned.
C8_Witness ==
  /\ FinishReturnedOK
  /\ thr["f1"].pc = "idle"
  /\ thr["f1"].op = "Finish"
  /\ thr["f1"].ret = "AlreadyFinished(OK)"

\* A compaction has returned an error.
CompactionFailed == \E i \in 1..Len(hist) : hist[i].status # OK

\* C9: once a compaction has returned an error, bg_status_ is that error
\* and stays it, and every __Add, __Flush and __Sync that returns, returns it.
C9_ErrorSticky ==
  [][CompactionFailed =>
       /\ bg_status_ = IOError
       /\ bg_status_' = IOError
       /\ \A t \in FgThreads :
            Returning(t) /\ thr[t].op \in {"Add", "Flush", "Sync"}
              => thr'[t].ret = IOError]_vars

\* A __Sync issued after the failure of a compaction has returned the error.
C9_Witness ==
  /\ CompactionFailed
  /\ thr["f1"].pc = "idle"
  /\ thr["f1"].op = "Sync"
  /\ thr["f1"].ret = IOError
  /\ ncalls >= 3

\* C10: once bg_status_ is not OK, num_compac_scheduled_ never changes.
C10_NoScheduleAfterError ==
  [][bg_status_ # OK => num_compac_scheduled_' = num_compac_scheduled_]_vars

\* A forced flush has returned the latched error and left the records of
\* the active buffer unscheduled.
C10_Witness ==
  /\ bg_status_ = IOError
  /\ thr["f1"].pc = "idle"
  /\ thr["f1"].op = "Flush"
  /\ thr["f1"].ret = IOError
  /\ wbuf[membuf_] # <<>>
  /\ InFlight = 0

(***************************************************************************)
(* The directory writer (one partition) on top of the coordinator.         *)
(***************************************************************************)
\* The keys the directory's callers append and read.
Keys == {1, 2}

\* The foreground thread is back from its DoubleBuffering call.
Returned == thr["f1"].pc = "idle" /\ mu = NoThread

\* DirWriter::Append(key, value, epoch): __Add on the key's partition.
DirAppend(k) ==
  /\ dir.dpc = "idle" /\ ~dir.finished /\ dir.na + dir.nf < MaxAppends
  /\ Call("f1", "Add", NewRec(k, 0), FALSE)
  /\ dir' = [dir EXCEPT !.dpc = "append", !.na = @ + 1]
  /\ UNCHANGED <<appended, got, ft, side, wb, cli>>

\* Append returns the status of __Add.
DirAppendRet ==
  /\ dir.dpc = "append" /\ Returned
  /\ LET ok == thr["f1"].ret = OK
         rec == thr["f1"].rec
     IN /\ dir' = [dir EXCEPT !.dpc = "idle", !.dirty = @ \/ ok]
        /\ appended' = IF ok
                       THEN Append(appended, [key |-> rec.key, val |-> rec.val,
                                              epoch |-> dir.epoch])
                       ELSE appended
  /\ UNCHANGED <<dbvars, mu, cvq, thr, wbuf, pool, log, datalog, nsync, closed, durable, ncalls,
                 hist, got, ft, side, wb, cli>>

\* DirWriter::EpochFlush(epoch): first Flush(wait = false) on the partition.
DirEpochFlush ==
  /\ dir.dpc = "idle" /\ ~dir.finished /\ dir.ne < MaxEpochs
  /\ Call("f1", "Flush", NoRec, FALSE)
  /\ dir' = [dir EXCEPT !.dpc = "ef_flush", !.ne = @ + 1]
  /\ UNCHANGED <<appended, got, ft, side, wb, cli>>

\* EpochFlush after its Flush: Wait() for the partition's compactions; an
\* error ends the epoch flush (and the one at the head of Finish).
DirEpochWait ==
  /\ dir.dpc \in {"ef_flush", "fin_flush"} /\ Returned
  /\ IF thr["f1"].ret = OK
     THEN /\ Call("f1", "Wait", NoRec, FALSE)
          /\ dir' = [dir EXCEPT !.dpc = IF @ = "ef_flush" THEN "ef_wait"
                                        ELSE "fin_wait"]
     ELSE /\ dir' = [dir EXCEPT !.dpc = IF @ = "ef_flush" THEN "idle"
                                        ELSE "fin_call"]
          /\ UNCHANGED <<dbvars, mu, cvq, thr, wbuf, pool, log, datalog, nsync, closed, durable,
                         ncalls, hist>>
  /\ UNCHANGED <<appended, got, ft, side, wb, cli>>

\* EpochFlush after Wait: write the epoch marker and move to the next epoch.
DirEpochEnd ==
  /\ dir.dpc \in {"ef_wait", "fin_wait"} /\ Returned
  /\ LET ok == thr["f1"].ret = OK
     IN dir' = [dir EXCEPT !.dpc = IF @ = "ef_wait" THEN "idle" ELSE "fin_call",
                           !.epoch = IF ok THEN @ + 1 ELSE @,
                           !.dirty = IF ok THEN FALSE ELSE @]
  /\ UNCHANGED <<dbvars, mu, cvq, thr, wbuf, pool, log, datalog, nsync, closed, durable, ncalls,
                 hist, appended, got, ft, side, wb, cli>>

\* DirWriter::Flush(): Flush(wait = false) on the partition, inside the
\* current epoch.
DirFlush ==
  /\ dir.dpc = "idle" /\ ~dir.finished /\ dir.na + dir.nf < MaxAppends
  /\ Call("f1", "Flush", NoRec, FALSE)
  /\ dir' = [dir EXCEPT !.dpc = "flush", !.nf = @ + 1]
  /\ UNCHANGED <<appended, got, ft, side, wb, cli>>

\* Flush returns the status of __Flush.
DirFlushRet ==
  /\ dir.dpc = "flush" /\ Returned
  /\ dir' = [dir EXCEPT !.dpc = "idle"]
  /\ UNCHANGED <<dbvars, mu, cvq, thr, wbuf, pool, log, datalog, nsync, closed, durable,
                 ncalls, hist, appended, got, ft, side, wb, cli>>

\* DirWriter::Finish(): an epoch flush if there were appends since the last
\* one, then __Finish on the partition.
DirFinish ==
  /\ dir.dpc = "idle" /\ ~dir.finished
  /\ IF dir.dirty
     THEN /\ Call("f1", "Flush", NoRec, FALSE)
          /\ dir' = [dir EXCEPT !.dpc = "fin_flush"]
     ELSE /\ Call("f1", "Finish", NoRec, FALSE)
          /\ dir' = [dir EXCEPT !.dpc = "fin"]
  /\ UNCHANGED <<appended, got, ft, side, wb, cli>>

\* Finish after its epoch flush: __Finish on the partition.
DirFinishCall ==
  /\ dir.dpc = "fin_call" /\ Returned
  /\ Call("f1", "Finish", NoRec, FALSE)
  /\ dir' = [dir EXCEPT !.dpc = "fin"]
  /\ UNCHANGED <<appended, got, ft, side, wb, cli>>

\* Finish returns the status of __Finish (the footer is written on OK).
DirFinishRet ==
  /\ dir.dpc = "fin" /\ Returned
  /\ dir' = [dir EXCEPT !.dpc = "idle", !.finished = TRUE,
                        !.status = thr["f1"].ret]
  /\ UNCHANGED <<dbvars, mu, cvq, thr, wbuf, pool, log, datalog, nsync, closed, durable, ncalls,
                 hist, appended, got, ft, side, wb, cli>>

(***************************************************************************)
(* The directory reader.                                                   *)
(***************************************************************************)
\* The hash a filter probes with.
Hash(k) == 5 * k + 1

\* The bits a table's bloom filter sets: m = n * bf_bits_per_key bits, one
\* probe per key.
FilterBits(recs, bpk) ==
  {Hash(recs[i].key) % (Len(recs) * bpk) : i \in 1..Len(recs)}

\* The filter test of one table: no filter is built when bf_bits_per_key is
\* 0, and the filter of an empty table matches nothing.
KeyMayMatch(tb, k, bpk) ==
  \/ bpk = 0
  \/ /\ tb.recs # <<>>
     /\ Hash(k) % (Len(tb.recs) * bpk) \in FilterBits(tb.recs, bpk)

RECURSIVE SelectVals(_, _)
\* The values stored under k in a sorted run, in the run's order.
SelectVals(recs, k) ==
  IF recs = <<>> THEN <<>>
  ELSE (IF Head(recs).key = k THEN <<Head(recs).val>> ELSE <<>>)
       \o SelectVals(Tail(recs), k)

\* The records in the data blocks a table's meta trailer refers to.
BlocksOf(tb) == [i \in 1..tb.nblocks |-> datalog[tb.off + i].rec]

\* What a lookup of k in one table finds.
TableGet(tb, k, bpk) ==
  IF KeyMayMatch(tb, k, bpk) THEN SelectVals(BlocksOf(tb), k) ELSE <<>>

\* A reader that searches only the first table of an epoch.
TablesOf_FirstOnly(e) ==
  LET tabs == SelectSeq(log, LAMBDA tb : tb.epoch = e)
  IN IF tabs = <<>> THEN <<>> ELSE <<Head(tabs)>>

\* The tables of epoch e, in the order they were written.
TablesOf(e) == SelectSeq(log, LAMBDA tb : tb.epoch = e)

RECURSIVE GetAll(_, _, _)
\* unique_keys = false: every value under k in the tables, oldest first.
GetAll(tabs, k, bpk) ==
  IF tabs = <<>> THEN <<>>
  ELSE TableGet(Head(tabs), k, bpk) \o GetAll(Tail(tabs), k, bpk)

RECURSIVE GetNewest(_, _, _)
\* unique_keys = true: stop at the newest table holding k; the last-written
\* value wins.
GetNewest(tabs, k, bpk) ==
  IF tabs = <<>> THEN <<>>
  ELSE LET hit == TableGet(tabs[Len(tabs)], k, bpk)
       IN IF hit # <<>> THEN <<hit[Len(hit)]>>
          ELSE GetNewest(SubSeq(tabs, 1, Len(tabs) - 1), k, bpk)

\* The lookup of k in one epoch.
EpochGet(e, k) ==
  IF dir.unique_keys THEN GetNewest(TablesOf(e), k, dir.bf_bits_per_key)
  ELSE GetAll(TablesOf(e), k, dir.bf_bits_per_key)

RECURSIVE ReadEpochs(_, _, _)
\* The lookups of k in epochs e .. n-1, concatenated in epoch order.
ReadEpochs(e, n, k) ==
  IF e >= n THEN <<>> ELSE EpochGet(e, k) \o ReadEpochs(e + 1, n, k)

\* DirReader::ReadAll(key) over the epochs closed by an epoch marker.
ReadAll(k) == ReadEpochs(0, dir.epoch, k)

\* A reader opened after Finish returned OK reads key k.
Read(k) ==
  /\ dir.dpc = "idle" /\ dir.finished /\ dir.status = OK
  /\ got' = [key |-> k, val |-> ReadAll(k), done |-> TRUE]
  /\ UNCHANGED <<dbvars, mu, cvq, thr, wbuf, pool, log, datalog, nsync, closed, durable, ncalls,
                 hist, dir, appended, ft, side, wb, cli>>

\* A directory opened with either setting of unique_keys, with and without
\* a filter.
InitDir ==
  /\ num_compac_scheduled_ = 0
  /\ num_compac_completed_ = 0
  /\ finished_ = FALSE
  /\ num_bg_compactions_ = 0
  /\ bg_status_ = OK
  /\ membuf_ = 1
  /\ bufs_ = <<2>>
  /\ mu = NoThread
  /\ cvq = {}
  /\ thr = [t \in Threads |-> IdleThread]
  /\ wbuf = [b \in Bufs |-> <<>>]
  /\ pool = <<>>
  /\ log = <<>>
  /\ datalog = <<>>
  /\ nsync = 0
  /\ closed = FALSE
  /\ durable = 0
  /\ ncalls = 0
  /\ hist = <<>>
  /\ dir \in {NewDir(uk, bpk) : uk \in BOOLEAN, bpk \in {0, 1}}
  /\ appended = <<>>
  /\ got = NoRead
  /\ ft = NoFilter
  /\ side = NoSide
  /\ wb = NoBuf
  /\ cli = NoCli

\* The steps of __Wait.
WaitStep ==
  \/ \E t \in FgThreads : WaitEntry(t)
  \/ \E t \in FgThreads : WaitTail(t)

\* The steps of the directory's writer and reader.
DirStep ==
  \/ \E k \in Keys : DirAppend(k)
  \/ DirAppendRet
  \/ DirFlush
  \/ DirFlushRet
  \/ DirEpochFlush
  \/ DirEpochWait
  \/ DirEpochEnd
  \/ DirFinish
  \/ DirFinishCall
  \/ DirFinishRet
  \/ \E k \in Keys : Read(k)

NextDir == DirStep \/ DbStep \/ WaitStep

SpecDir == InitDir /\ [][NextDir]_vars

(***************************************************************************)
(* Properties of the directory: what ReadAll returns after Finish.         *)
(***************************************************************************)
\* The values appended under k, in the order they were appended.
Appended(k) ==
  LET s == SelectSeq(appended, LAMBDA r : r.key = k)
  IN [i \in 1..Len(s) |-> s[i].val]

\* The epochs in which k was appended.
EpochsOf(k) == {appended[i].epoch : i \in {j \in 1..Len(appended) : appended[j].key = k}}

\* k was appended at most once in each epoch.
OncePerEpoch(k) ==
  \A i, j \in 1..Len(appended) :
    (i # j /\ appended[i].key = k /\ appended[j].key = k)
      => appended[i].epoch # appended[j].epoch

C4_MultiValueConcat ==
  (got.done /\ ~dir.unique_keys) => got.val = Appended(got.key)

\* With unique_keys = false, a key appended twice in one epoch and once in
\* another, next to records of another key or not, has been read.
C4_Witness ==
  /\ got.done /\ ~dir.unique_keys
  /\ Len(got.val) = 3
  /\ Cardinality(EpochsOf(got.key)) = 2

\* C5: whatever unique_keys is, a key appended once per epoch in several
\* epochs reads as the concatenation of its values in increasing epoch
\* order, one value per epoch and not only the newest.
C5_OncePerEpochConcat ==
  (got.done /\ OncePerEpoch(got.key) /\ Cardinality(EpochsOf(got.key)) >= 2)
    => /\ got.val = Appended(got.key)
       /\ Len(got.val) = Cardinality(EpochsOf(got.key))

\* Two keys were each appended in several epochs and one of them, appended
\* in two epochs, has been read.
C5_Witness ==
  /\ got.done
  /\ OncePerEpoch(got.key)
  /\ Cardinality(EpochsOf(got.key)) = 2
  /\ \E k \in Keys \ {got.key} : EpochsOf(k) # {}
  /\ got.val = Appended(got.key)

\* C6: ReadAll of a key that was never appended returns the empty string,
\* with a filter and without one, also when every epoch is empty.
C6_AbsentKeyEmpty ==
  (got.done /\ Appended(got.key) = <<>>) => got.val = <<>>

\* A key that was never appended has been read from a directory with a
\* filter that holds another key, in a table the filter lets the lookup
\* search.
C6_Witness ==
  /\ got.done
  /\ Appended(got.key) = <<>>
  /\ appended # <<>>
  /\ dir.bf_bits_per_key = 1
  /\ \E i \in 1..Len(log) :
       log[i].recs # <<>> /\ KeyMayMatch(log[i], got.key, dir.bf_bits_per_key)
  /\ got.val = <<>>

(***************************************************************************)
(* Properties of the coordinator: errors at Finish, blocking, Flush, Sync. *)
(***************************************************************************)
\* Thread t starts waiting on bg_cv_ in this step.
Blocks(t) == t \notin cvq /\ t \in cvq'

\* Thread t takes a step of its own in this step.
Steps(t) == thr'[t] # thr[t]

\* C11: a __Finish that returns when a compaction has failed (also the one
\* it triggered itself) returns that error, and one that returns with a
\* failed sync latched returns that error: neither OK nor "Already finished".
C11_FinishReturnsLatched ==
  [][\A t \in FgThreads :
       (Returning(t) /\ thr[t].op = "Finish")
         => /\ CompactionFailed => thr'[t].ret = IOError
            /\ bg_status_ = SyncError => thr'[t].ret = SyncError]_vars

\* The compaction __Finish triggered has failed and __Finish has returned
\* its error.
C11_Witness ==
  /\ thr["f1"].pc = "idle"
  /\ thr["f1"].op = "Finish"
  /\ thr["f1"].ret = IOError
  /\ finished_
  /\ hist # <<>>
  /\ hist[Len(hist)].status = IOError
  /\ hist[Len(hist)].cseq = thr["f1"].seq

\* C12: __Add starts waiting only when membuf_ has no room for its record
\* and there is no spare buffer because a compaction is in flight; with
\* room in membuf_ (and no error latched) Prepare returns OK at once and
\* __Add appends the record and returns OK.
C12_AddBlocksOnlyWhenFull ==
  [][\A t \in FgThreads :
       thr[t].op = "Add" =>
         /\ Blocks(t) => /\ ~HasRoom(wbuf[membuf_], thr[t].rec)
                         /\ bufs_ = <<>>
                         /\ InFlight = 1
         /\ (thr[t].pc = "prepare" /\ Steps(t) /\ bg_status_ = OK
               /\ HasRoom(wbuf[membuf_], thr[t].rec))
              => thr'[t].pc = "prepared" /\ thr'[t].status = OK
         /\ (thr[t].pc = "prepared" /\ thr[t].status = OK /\ Steps(t))
              => /\ Returning(t)
                 /\ thr'[t].ret = OK
                 /\ wbuf'[membuf_] = Append(wbuf[membuf_], thr[t].rec)]_vars

\* An __Add is waiting for the spare buffer.
C12_Witness ==
  /\ "f1" \in cvq
  /\ thr["f1"].op = "Add"
  /\ thr["f1"].pc = "prepare_w"
  /\ num_compac_completed_ >= 1

\* C13 as claimed: only __Add, __Flush(wait = true) and __Sync ever start
\* waiting on bg_cv_.
C13_OnlyAddFlushWaitSyncBlock ==
  [][\A t \in FgThreads :
       Blocks(t) => \/ thr[t].op = "Add"
                    \/ thr[t].op = "Flush" /\ thr[t].wait
                    \/ thr[t].op = "Sync"]_vars

\* C13 amended: a call waits in Prepare only when there is no spare buffer
\* because a compaction is in flight, and this holds for __Flush with either
\* value of wait and for __Finish too; it waits in WaitFor only in
\* __Flush(wait = true) and __Sync, and in WaitForCompactions only in __Sync
\* and __Finish.
C13_WhoBlocksWhere ==
  [][\A t \in FgThreads :
       Blocks(t) =>
         /\ thr'[t].pc = "prepare_w" => bufs_ = <<>> /\ InFlight = 1
         /\ thr'[t].pc = "waitfor_w"
              => \/ thr[t].op = "Flush" /\ thr[t].wait
                 \/ thr[t].op = "Sync"
         /\ thr'[t].pc = "waitall_w" => thr[t].op \in {"Sync", "Finish"}]_vars

\* A __Flush(wait = false) is waiting for the spare buffer.
C13_Witness ==
  /\ "f1" \in cvq
  /\ thr["f1"].op = "Flush"
  /\ ~thr["f1"].wait
  /\ thr["f1"].pc = "prepare_w"

\* C14: when __Flush(wait = true) returns OK, the compaction it scheduled
\* has completed and written its table, no record is left in a buffer, and
\* the status it returns is bg_status_.
C14_FlushWaitCompleted ==
  [][\A t \in FgThreads :
       (Returning(t) /\ thr[t].op = "Flush" /\ thr[t].wait)
         => /\ thr'[t].ret = bg_status_'
            /\ thr'[t].ret = OK =>
                 /\ thr[t].seq >= 1
                 /\ num_compac_completed_ >= thr[t].seq
                 /\ \E j \in 1..Len(log) : log[j].cseq = thr[t].seq
                 /\ \A b \in Bufs : wbuf[b] = <<>>]_vars

\* A __Flush(wait = true) that compacted records has returned OK.
C14_Witness ==
  /\ thr["f1"].pc = "idle"
  /\ thr["f1"].op = "Flush"
  /\ thr["f1"].wait
  /\ thr["f1"].ret = OK
  /\ \E j \in 1..Len(log) : log[j].cseq = thr["f1"].seq /\ log[j].recs # <<>>
  /\ thr["f1"].seq >= 2

\* C15: __Sync calls SyncBackend only with bg_status_ OK and no compaction
\* outstanding, none is in flight while the backend syncs, and __Sync
\* returns bg_status_.
C15_SyncAfterCompactions ==
  [][\A t \in FgThreads :
       thr[t].op = "Sync" =>
         /\ thr'[t].pc = "syncio"
              => /\ InFlight = 0 /\ InFlight' = 0
                 /\ num_bg_compactions_ = 0
                 /\ bg_status_ = OK
         /\ Returning(t) => thr'[t].ret = bg_status_']_vars

\* A __Sync that had a compaction to wait for is in SyncBackend.
C15_Witness ==
  /\ thr["f1"].op = "Sync"
  /\ thr["f1"].pc = "syncio"
  /\ thr["f1"].seq >= 1
  /\ log # <<>>
  /\ log[Len(log)].recs # <<>>

\* C16: the steps of __Sync(do_flush = false) schedule no compaction and
\* leave membuf_ and its contents unchanged.
C16_SyncNoFlush ==
  [][\A t \in FgThreads :
       (thr[t].op = "Sync" /\ ~thr[t].wait /\ thr[t].pc # "idle" /\ Steps(t))
         => /\ num_compac_scheduled_' = num_compac_scheduled_
            /\ membuf_' = membuf_
            /\ wbuf'[membuf_] = wbuf[membuf_]]_vars

\* The tables written by the compactions with a sequence number up to s.
TablesUpTo(s) == {j \in 1..Len(log) : log[j].cseq <= s}

\* C17 as claimed: when __Flush(wait = true) returns OK, having observed its
\* compaction seq completed, the records written by all compactions up to
\* seq are durable.
C17_WaiterSeesDurable ==
  [][\A t \in FgThreads :
       (Returning(t) /\ thr[t].op = "Flush" /\ thr[t].wait
          /\ thr'[t].ret = OK)
         => \A j \in TablesUpTo(thr[t].seq) :
              log[j].recs # <<>> => j <= durable]_vars

\* C17 amended: when __Flush(wait = true) returns OK, the tables of all
\* compactions up to its seq are written to the log, one per compaction;
\* they are durable once a __Sync has returned OK after that: a __Sync that
\* returns OK leaves every table written so far durable.
C17_WrittenThenSynced ==
  [][\A t \in FgThreads :
       /\ (Returning(t) /\ thr[t].op = "Flush" /\ thr[t].wait
             /\ thr'[t].ret = OK)
            => {log[j].cseq : j \in TablesUpTo(thr[t].seq)} = 1..thr[t].seq
       /\ (Returning(t) /\ thr[t].op = "Sync" /\ thr'[t].ret = OK)
            => durable = Len(log)]_vars

\* A __Flush(wait = true) has returned OK with its table written and not
\* durable.
C17_Witness ==
  /\ thr["f1"].pc = "idle"
  /\ thr["f1"].op = "Flush"
  /\ thr["f1"].wait
  /\ thr["f1"].ret = OK
  /\ \E j \in TablesUpTo(thr["f1"].seq) : j > durable /\ log[j].recs # <<>>

\* Record a (of the appended history) is in table tb.
InTable(a, tb) == \E i \in 1..Len(tb.recs) : tb.recs[i].val = a.val

\* The log holds the epochs in order, and a record only in a table of the
\* epoch it was appended in.
LogInEpochOrder ==
  /\ \A i, j \in 1..Len(log) : i < j => log[i].epoch <= log[j].epoch
  /\ \A n \in 1..Len(appended) : \A j \in 1..Len(log) :
       InTable(appended[n], log[j]) => log[j].epoch = appended[n].epoch

\* C18: when EpochFlush returns OK and the epoch ends, no compaction is in
\* flight, no record is left in a buffer and every record appended so far is
\* in a table of its epoch; so, with Append, Flush and EpochFlush in any
\* order, the log holds the records of epoch e before those of epoch e+1.
C18_EpochFlushSeparatesEpochs ==
  [][/\ dir'.epoch = dir.epoch + 1 =>
          /\ InFlight = 0
          /\ \A b \in Bufs : wbuf[b] = <<>>
          /\ \A n \in 1..Len(appended) : \E j \in 1..Len(log) :
               InTable(appended[n], log[j])
     /\ LogInEpochOrder']_vars

\* Two epochs with records have ended, with a Flush in between the appends.
C18_Witness ==
  /\ dir.epoch = 2
  /\ dir.nf = 1
  /\ \E i, j \in 1..Len(log) :
       /\ log[i].epoch = 0 /\ log[i].recs # <<>>
       /\ log[j].epoch = 1 /\ log[j].recs # <<>>

\* C19: under a fair thread pool every call of Add, Flush, Sync and Finish
\* eventually returns, also when its compaction fails while it waits.
C19_EveryCallReturns ==
  \A t \in FgThreads : (thr[t].pc # "idle") ~> (thr[t].pc = "idle")

\* A caller is blocked on bg_cv_ while the compaction it waits for has failed.
C19_Witness ==
  \E t \in FgThreads, w \in Workers :
    /\ t \in cvq
    /\ thr[w].pc = "compacted" /\ thr[w].cstatus = IOError

(***************************************************************************)
(* The filter layer: bloom and cuckoo blocks.                              *)
(***************************************************************************)
\* Keys added to one filter block.
MaxFilterKeys == 6

\* The keys a filter block is built over and probed with.
FilterKeys == 0..7

\* Width of the key hash, of a cuckoo fingerprint (K) and slots per bucket.
HashBits == 4
FingerprintBits == 2
SlotsPerBucket == 4

\* Evictions tried before a fingerprint goes to the overflow chain.
MaxKicks == 2

\* The multiplier of the second bucket's index, 0x5bd1e995.
CuckooMul == 1540483477

\* The sizes a block is reset to, and the bits per key of a bloom block.
ResetSizes == {1, 4, 8}
BloomBitsPerKey == {1, 3}

RECURSIVE Pow2(_)
Pow2(n) == IF n = 0 THEN 1 ELSE 2 * Pow2(n - 1)

RECURSIVE NextPow2From(_, _)
NextPow2From(p, n) == IF p >= n THEN p ELSE NextPow2From(2 * p, n)

\* The smallest power of two that is at least n.
NextPow2(n) == NextPow2From(1, n)

RECURSIVE Xor(_, _)
\* Bitwise exclusive or.
Xor(a, b) ==
  IF a = 0 /\ b = 0 THEN 0
  ELSE ((a + b) % 2) + 2 * Xor(a \div 2, b \div 2)

\* h1(key), HashBits wide.
H1(k) == Hash(k) % Pow2(HashBits)

\* A fingerprint that keeps the value 0 of an empty slot.
Fingerprint_ZeroKept(h) == h \div Pow2(HashBits - FingerprintBits)

\* The top K bits of the hash, with 0 reserved for the empty slot.
Fingerprint(h) ==
  IF h \div Pow2(HashBits - FingerprintBits) = 0 THEN 1
  ELSE h \div Pow2(HashBits - FingerprintBits)

\* num_buckets = next_pow2(ceil(n / 4 / load_factor)), load_factor 0.95.
NumBucketsFor(n) == NextPow2((100 * n + 379) \div 380)

\* The other bucket of a fingerprint kept in bucket b of nb buckets.
AltBucket(b, fp, nb) == Xor(b, ((fp % nb) * (CuckooMul % nb)) % nb)

\* A lookup that checks the first bucket only.
Candidates_FirstOnly(h, nb) == {h % nb}

\* The two candidate buckets of a key.
Candidates(h, nb) == {h % nb, AltBucket(h % nb, Fingerprint(h), nb)}

EmptyTable(nb) == [b \in 0..(nb - 1) |-> [s \in 1..SlotsPerBucket |-> 0]]

HasFree(t, b) == \E s \in 1..SlotsPerBucket : t[b][s] = 0

\* The fingerprint is stored in the first empty slot of bucket b.
Put(t, b, fp) ==
  LET s == CHOOSE i \in 1..SlotsPerBucket :
             t[b][i] = 0 /\ \A j \in 1..(i - 1) : t[b][j] # 0
  IN [t EXCEPT ![b][s] = fp]

RECURSIVE Kick(_, _, _, _, _)
\* The outcomes of homing fp in bucket cur with n evictions left: the
\* fingerprint takes an empty slot, or it takes the slot of a victim picked
\* at random, which is re-homed in its other bucket; fp = 0 in the result
\* when everything has a slot, else the fingerprint left homeless and the
\* bucket visited last.
Kick(t, nb, fp, cur, n) ==
  IF HasFree(t, cur) THEN {[tab |-> Put(t, cur, fp), fp |-> 0, at |-> 0]}
  ELSE IF n = 0 THEN {[tab |-> t, fp |-> fp, at |-> cur]}
  ELSE UNION {Kick([t EXCEPT ![cur][s] = fp], nb, t[cur][s],
                   AltBucket(cur, t[cur][s], nb), n - 1) :
              s \in 1..SlotsPerBucket}

\* Insert into one table: an empty slot of b1 or b2, else evictions from b2.
InsertOne(t, nb, fp, b1) ==
  IF HasFree(t, b1) THEN {[tab |-> Put(t, b1, fp), fp |-> 0, at |-> 0]}
  ELSE Kick(t, nb, fp, AltBucket(b1, fp, nb), MaxKicks)

RECURSIVE AddToChain(_, _, _, _, _)
\* Insert into table i of the chain; what is left homeless is pushed to the
\* next overflow table, which is constructed when there is none.
AddToChain(tables, i, nb, fp, b) ==
  IF i > Len(tables)
  THEN AddToChain(Append(tables, EmptyTable(nb)), i, nb, fp, b)
  ELSE UNION {IF r.fp = 0 THEN {[tables EXCEPT ![i] = r.tab]}
              ELSE AddToChain([tables EXCEPT ![i] = r.tab], i + 1, nb,
                              r.fp, r.at) :
              r \in InsertOne(tables[i], nb, fp, b)}

\* CuckooKeyMayMatch: both buckets of the main table, then each overflow
\* table in order, as many as the block's overflow_count says.
CuckooKeyMayMatch(f, k) ==
  \E i \in 1..(1 + f.overflow_count) :
    \E b \in Candidates(H1(k), f.num_buckets) :
      \E s \in 1..SlotsPerBucket : f.tables[i][b][s] = Fingerprint(H1(k))

\* k = round(bits_per_key * ln 2), clamped to [1, 30].
BloomK(bpk) ==
  LET k == (bpk * 693 + 500) \div 1000
  IN IF k < 1 THEN 1 ELSE IF k > 30 THEN 30 ELSE k

\* The hash rotated right by one bit: the step between two probes.
Rotated(h) == (h \div 2) + (h % 2) * Pow2(HashBits - 1)

\* The bits the k probes of a hash address in a filter of m bits.
BloomProbes(h, m, k) ==
  {((h + j * Rotated(h)) % Pow2(HashBits)) % m : j \in 0..(k - 1)}

\* BloomKeyMayMatch: every probed bit is set; m and k are read off the block.
BloomKeyMayMatch(f, k) ==
  f.m > 0 /\ BloomProbes(H1(k), f.m, f.k) \subseteq f.bits

\* The filter test of a finished block.
FilterKeyMayMatch(f, k) ==
  IF f.kind = "bloom" THEN BloomKeyMayMatch(f, k) ELSE CuckooKeyMayMatch(f, k)

\* Reset(n): an empty block sized for n keys.
FtReset(kind, n, bpk) ==
  [kind |-> kind, keys |-> {}, n |-> 0, done |-> FALSE, bpk |-> bpk,
   num_buckets |-> NumBucketsFor(n), overflow_count |-> 0,
   tables |-> <<EmptyTable(NumBucketsFor(n))>>,
   m |-> 0, k |-> 0, bits |-> {}]

\* BloomBlock::AddKey: the key's hash is kept until Finish; n counts the
\* keys added.
BloomAddKey(k) ==
  /\ ft.kind = "bloom" /\ ~ft.done /\ ft.n < MaxFilterKeys
  /\ ft' = [ft EXCEPT !.keys = @ \cup {k}, !.n = @ + 1]

\* CuckooBlock::AddKey: the fingerprint goes into the main table or, from
\* there, down the overflow chain.
CuckooAddKey(k) ==
  /\ ft.kind = "cuckoo" /\ ~ft.done /\ ft.n < MaxFilterKeys
  /\ \E tabs \in AddToChain(ft.tables, 1, ft.num_buckets,
                            Fingerprint(H1(k)), H1(k) % ft.num_buckets) :
       ft' = [ft EXCEPT !.keys = @ \cup {k}, !.n = @ + 1, !.tables = tabs]

\* BloomBlock::Finish: m = n * bits_per_key bits, k probes per key.
BloomFinish ==
  /\ ft.kind = "bloom" /\ ~ft.done
  /\ LET m == ft.n * ft.bpk
         k == BloomK(ft.bpk)
     IN ft' = [ft EXCEPT !.done = TRUE, !.m = m, !.k = k,
                         !.bits = UNION {BloomProbes(H1(x), m, k) :
                                         x \in ft.keys}]

\* CuckooBlock::Finish: num_buckets, overflow_count, the main table's
\* buckets and the overflow blocks.
CuckooFinish ==
  /\ ft.kind = "cuckoo" /\ ~ft.done
  /\ ft' = [ft EXCEPT !.done = TRUE, !.overflow_count = Len(ft.tables) - 1]

\* The other variables of the model stay as the constructor left them.
FilterFrame ==
  UNCHANGED <<dbvars, mu, cvq, thr, wbuf, pool, log, datalog, nsync, closed, durable,
              ncalls, hist, dir, appended, got, side, wb, cli>>

InitFilter ==
  /\ num_compac_scheduled_ = 0
  /\ num_compac_completed_ = 0
  /\ finished_ = FALSE
  /\ num_bg_compactions_ = 0
  /\ bg_status_ = OK
  /\ membuf_ = 1
  /\ bufs_ = <<2>>
  /\ mu = NoThread
  /\ cvq = {}
  /\ thr = [t \in Threads |-> IdleThread]
  /\ wbuf = [b \in Bufs |-> <<>>]
  /\ pool = <<>>
  /\ log = <<>>
  /\ datalog = <<>>
  /\ nsync = 0
  /\ closed = FALSE
  /\ durable = 0
  /\ ncalls = 0
  /\ hist = <<>>
  /\ dir = NewDir(TRUE, 0)
  /\ appended = <<>>
  /\ got = NoRead
  /\ side = NoSide
  /\ wb = NoBuf
  /\ cli = NoCli
  /\ ft \in {FtReset("bloom", n, bpk) : n \in ResetSizes, bpk \in BloomBitsPerKey}
            \cup {FtReset("cuckoo", n, 0) : n \in ResetSizes}

NextFilter ==
  \/ \E k \in FilterKeys : BloomAddKey(k) /\ FilterFrame
  \/ \E k \in FilterKeys : CuckooAddKey(k) /\ FilterFrame
  \/ BloomFinish /\ FilterFrame
  \/ CuckooFinish /\ FilterFrame

SpecFilter == InitFilter /\ [][NextFilter]_vars

MaxSideCalls == 4

\* side_io_buf_size, in bytes, and the lengths of an IoAppend payload.
SideBufSize == 2
SideLens == {1, 2}

\* A side log writer that puts the buffered bytes in front of the file.
SideFlushed_Prepend(file, buf) == buf \o file

\* The buffered bytes are appended to the side log file.
SideFlushed(file, buf) == file \o buf

\* The client has calls left and is not inside a call of the key/value path.
SideBudget ==
  /\ dir.dpc = "idle"
  /\ dir.na + dir.nf + dir.ne + side.n < MaxSideCalls

\* IoAppend(bytes): the bytes are buffered; a buffer they do not fit in is
\* written out first. The n-th call writes bytes of value n.
IoAppend(len) ==
  /\ SideBudget /\ ~side.finished
  /\ LET data == [i \in 1..len |-> side.n + 1]
         fits == Len(side.buf) + len <= SideBufSize
     IN side' = [side EXCEPT
                   !.buf = IF fits THEN side.buf \o data ELSE data,
                   !.file = IF fits THEN @ ELSE SideFlushed(@, side.buf),
                   !.all = @ \o data,
                   !.n = @ + 1]
  /\ UNCHANGED <<dbvars, mu, cvq, thr, wbuf, pool, log, datalog, nsync, closed, durable,
                 ncalls, hist, dir, appended, got, ft, wb, cli>>

\* IoFlush: the buffer is written out.
IoFlush ==
  /\ dir.dpc = "idle" /\ ~side.finished /\ side.buf # <<>>
  /\ side' = [side EXCEPT !.buf = <<>>, !.file = SideFlushed(@, side.buf)]
  /\ UNCHANGED <<dbvars, mu, cvq, thr, wbuf, pool, log, datalog, nsync, closed, durable,
                 ncalls, hist, dir, appended, got, ft, wb, cli>>

\* IoFinish: the buffer is written out and the side log is closed.
IoFinish ==
  /\ dir.dpc = "idle" /\ ~side.finished
  /\ side' = [side EXCEPT !.buf = <<>>, !.file = SideFlushed(@, side.buf),
                          !.finished = TRUE]
  /\ UNCHANGED <<dbvars, mu, cvq, thr, wbuf, pool, log, datalog, nsync, closed, durable,
                 ncalls, hist, dir, appended, got, ft, wb, cli>>

\* The bytes [off, off + len) of a file, as far as the file goes.
Pread(file, off, len) ==
  SubSeq(file, off + 1, IF off + len < Len(file) THEN off + len ELSE Len(file))

\* IoPread(off, n) by a reader opened after the writer has finished.
IoPread(off) ==
  /\ dir.dpc = "idle" /\ dir.finished /\ side.finished /\ ~side.done
  /\ side' = [side EXCEPT !.rd = Pread(side.file, off, Len(side.all)),
                          !.off = off, !.done = TRUE]
  /\ UNCHANGED <<dbvars, mu, cvq, thr, wbuf, pool, log, datalog, nsync, closed, durable,
                 ncalls, hist, dir, appended, got, ft, wb, cli>>

\* The client's calls on the two paths, the steps inside them and the pool.
NextSide ==
  \/ SideBudget /\ DirAppend(1)
  \/ SideBudget /\ DirFlush
  \/ SideBudget /\ DirEpochFlush
  \/ DirAppendRet
  \/ DirFlushRet
  \/ DirEpochWait
  \/ DirEpochEnd
  \/ DirFinish
  \/ DirFinishCall
  \/ DirFinishRet
  \/ DbStep
  \/ WaitStep
  \/ \E len \in SideLens : IoAppend(len)
  \/ IoFlush
  \/ IoFinish
  \/ \E off \in {0, 1} : IoPread(off)

SpecSide == Init /\ [][NextSide]_vars

\* C21: after the writer has finished, IoPread(0, n) returns the payloads of
\* all IoAppend calls, concatenated in the order of the calls, whatever Put,
\* Flush and EpochFlush calls came in between.
C21_SideReadsBackInOrder ==
  (side.done /\ side.off = 0) => side.rd = side.all

\* Two payloads read back, with an append, a Flush and an ended epoch on the
\* key/value path, and with a buffer written out before IoFinish.
C21_Witness ==
  /\ side.done /\ side.off = 0 /\ side.n >= 2 /\ Len(side.rd) >= 3
  /\ dir.na >= 1 /\ dir.nf + dir.ne >= 1 /\ log # <<>>

\* Epoch e is held in several tables that have records.
SplitEpoch(e) ==
  \E i, j \in 1..Len(log) :
    /\ i < j
    /\ log[i].epoch = e /\ log[i].recs # <<>>
    /\ log[j].epoch = e /\ log[j].recs # <<>>

\* C22: once Finish has returned OK after a Flush in the middle of an epoch,
\* a reader finds every key with its values, those appended before the Flush
\* and those appended after it in the same epoch: ReadAll searches all the
\* tables of an epoch.
C22_FlushInvisibleToReaders ==
  (dir.dpc = "idle" /\ dir.finished /\ dir.status = OK /\ dir.nf >= 1) =>
    \A k \in Keys : OncePerEpoch(k) => ReadAll(k) = Appended(k)

\* A Flush has split an epoch: one key is in the table written by the Flush
\* and another key, appended after it, in a later table of the same epoch, and
\* the reader has looked one of them up.
C22_Witness ==
  /\ dir.finished /\ dir.status = OK /\ dir.nf = 1 /\ got.done
  /\ \E e \in 0..dir.epoch : SplitEpoch(e)
  /\ \E i, j \in 1..Len(log) :
       /\ i < j /\ log[i].epoch = log[j].epoch
       /\ Len(log[i].recs) = 1 /\ Len(log[j].recs) = 1
       /\ log[i].recs[1].key # log[j].recs[1].key
       /\ got.key = log[i].recs[1].key
       /\ got.val = <<log[i].recs[1].val>>

\* Compaction c has returned an I/O error.
Failed(c) ==
  \/ \E i \in 1..Len(hist) : hist[i].cseq = c /\ hist[i].status # OK
  \/ \E t \in Threads :
       thr[t].pc = "compacted" /\ thr[t].cseq = c /\ thr[t].cstatus # OK

\* The values a lookup of k finds in table tb.
Found(tb, k) ==
  {TableGet(tb, k, dir.bf_bits_per_key)[i] :
     i \in 1..Len(TableGet(tb, k, dir.bf_bits_per_key))}

\* C23: a table is visible to readers only by its meta trailer, written
\* after all of its blocks: every table of the log is of a compaction that
\* returned OK and refers to exactly the blocks of that compaction, each
\* successful compaction has exactly one table and a failed one none, and no
\* lookup returns a record from the blocks a failed compaction left behind.
C23_FailedTableInvisible ==
  /\ \A j \in 1..Len(log) :
       /\ ~Failed(log[j].cseq)
       /\ BlocksOf(log[j]) = log[j].recs
       /\ \A i \in 1..log[j].nblocks :
            datalog[log[j].off + i].cseq = log[j].cseq
  /\ \A i, j \in 1..Len(log) : i # j => log[i].cseq # log[j].cseq
  /\ \A i \in 1..Len(hist) :
       hist[i].status = OK => \E j \in 1..Len(log) : log[j].cseq = hist[i].cseq
  /\ \A b \in 1..Len(datalog) :
       Failed(datalog[b].cseq) =>
         \A j \in 1..Len(log) :
           datalog[b].rec.val \notin Found(log[j], datalog[b].rec.key)

\* A directory with a filter, where a compaction may fail after any number
\* of its blocks.
InitFail == InitDir /\ dir.bf_bits_per_key = 1

NextFail ==
  \/ DirStep
  \/ DbStep
  \/ WaitStep
  \/ \E t \in Threads, n \in 1..BufBudget : CompactWrites(t, FALSE, n)

SpecFail == InitFail /\ [][NextFail]_vars

\* A compaction of two records has failed after writing one block, behind a
\* table with records that readers can see.
C23_Witness ==
  \E w \in Workers :
    /\ thr[w].pc = "compacted" /\ thr[w].cstatus = IOError
    /\ Len(wbuf[thr[w].immbuf]) = 2
    /\ Cardinality({b \in 1..Len(datalog) : datalog[b].cseq = thr[w].cseq}) = 1
    /\ \E j \in 1..Len(log) : log[j].recs # <<>> /\ log[j].off + log[j].nblocks < Len(datalog)

(***************************************************************************)
(* WriteBuffer: Add, FinishAndSort and the iterator.                       *)
(***************************************************************************)
\* Entries added to one write buffer.
MaxBufAdds == 4

\* The sequence numbers the keys are encoded from.
BufSeqs == {1, 2, 3, 256}

\* PutFixed64(&key, seq): little-endian, low byte first (two bytes kept).
PutFixed(seq) == <<seq % 256, (seq \div 256) % 256>>

\* The place of a two-byte key in bytewise order.
BytewiseRank(bytes) == bytes[1] * 256 + bytes[2]

\* BytewiseComparator: a <= b, byte by byte from the first.
BytewiseLE(a, b) == a[1] < b[1] \/ (a[1] = b[1] /\ a[2] <= b[2])

\* WriteBuffer::Add(key, value); the value tells the insertions apart.
BufAdd(seq) ==
  /\ ~wb.finished /\ wb.n < MaxBufAdds
  /\ wb' = [wb EXCEPT !.n = @ + 1,
                      !.recs = Append(@, [key |-> BytewiseRank(PutFixed(seq)),
                                          bytes |-> PutFixed(seq),
                                          val |-> wb.n + 1,
                                          sz |-> RecSize(0)])]

\* WriteBuffer::FinishAndSort()
BufFinishAndSort ==
  /\ ~wb.finished
  /\ wb' = [wb EXCEPT !.finished = TRUE, !.out = FinishAndSort(wb.recs)]

\* Iterator::SeekToFirst(); position 0 is an iterator that is not Valid().
BufSeekToFirst ==
  /\ wb.finished
  /\ wb' = [wb EXCEPT !.iter = IF wb.out = <<>> THEN 0 ELSE 1, !.at = "first"]

\* Iterator::SeekToLast()
BufSeekToLast ==
  /\ wb.finished
  /\ wb' = [wb EXCEPT !.iter = Len(wb.out), !.at = "last"]

\* Iterator::Next()
BufNext ==
  /\ wb.finished /\ wb.iter # 0
  /\ wb' = [wb EXCEPT !.iter = IF wb.iter < Len(wb.out) THEN wb.iter + 1 ELSE 0,
                      !.at = "next"]

BufFrame ==
  UNCHANGED <<dbvars, mu, cvq, thr, wbuf, pool, log, datalog, nsync, closed,
              durable, ncalls, hist, dir, appended, got, ft, side, cli>>

NextBuf ==
  \/ \E seq \in BufSeqs : BufAdd(seq) /\ BufFrame
  \/ BufFinishAndSort /\ BufFrame
  \/ BufSeekToFirst /\ BufFrame
  \/ BufSeekToLast /\ BufFrame
  \/ BufNext /\ BufFrame

SpecBuf == Init /\ [][NextBuf]_vars

\* C24: after FinishAndSort the iterator yields every added entry once, in
\* ascending bytewise key order whatever the insertion order, entries with
\* equal keys in insertion order; NumEntries is the number of Adds;
\* SeekToFirst is at the smallest key and SeekToLast at the largest, each
\* with a value added under that key.
C24_SortedStableIteration ==
  wb.finished =>
    /\ Len(wb.out) = wb.n
    /\ {wb.out[i].val : i \in 1..Len(wb.out)} = 1..wb.n
    /\ \A i \in 1..Len(wb.out) : wb.out[i] = wb.recs[wb.out[i].val]
    /\ \A i, j \in 1..Len(wb.out) :
         i < j => /\ BytewiseLE(wb.out[i].bytes, wb.out[j].bytes)
                  /\ wb.out[i].bytes = wb.out[j].bytes
                       => wb.out[i].val < wb.out[j].val
    /\ (wb.at = "first" /\ wb.n > 0) =>
         /\ wb.iter # 0
         /\ \A r \in 1..wb.n :
              BytewiseLE(wb.out[wb.iter].bytes, wb.recs[r].bytes)
    /\ (wb.at = "last" /\ wb.n > 0) =>
         /\ wb.iter # 0
         /\ \A r \in 1..wb.n :
              BytewiseLE(wb.recs[r].bytes, wb.out[wb.iter].bytes)

\* Keys added out of order, one of them twice and one whose bytewise place
\* is not its numeric place, are iterated from the first to the last.
C24_Witness ==
  /\ wb.finished /\ wb.n = 4 /\ wb.at = "next" /\ wb.iter = 4
  /\ wb.recs[1].bytes = PutFixed(3) /\ wb.recs[2].bytes = PutFixed(256)
  /\ wb.recs[3].bytes = PutFixed(1) /\ wb.recs[4].bytes = PutFixed(3)
  /\ wb.out[1].bytes = PutFixed(256)

\* Thread t schedules a compaction in this step of a forced Prepare.
ForcedSwitch(t) ==
  /\ thr[t].pc = "prepare" /\ thr[t].force
  /\ num_compac_scheduled_' = num_compac_scheduled_ + 1

\* C25: a flush forced on an empty active buffer is compacted inline by the
\* calling thread, a non-empty buffer goes to the pool; and a Flush (with
\* wait = false too) or Finish that ran its compaction inline returns with
\* num_compac_completed_ = num_compac_scheduled_.
C25_EmptyBufferCompactedInline ==
  [][\A t \in FgThreads :
       /\ ForcedSwitch(t) =>
            IF wbuf[membuf_] = <<>>
            THEN /\ thr'[t].pc = "compact" /\ thr'[t].immbuf = membuf_
                 /\ pool' = pool
            ELSE /\ thr'[t].pc # "compact"
                 /\ pool' = Append(pool, [immbuf |-> membuf_,
                                          cseq |-> num_compac_scheduled_'])
       /\ (Returning(t) /\ thr[t].op \in {"Flush", "Finish"}
             /\ thr[t].cseq # 0) =>
            /\ num_compac_completed_' = num_compac_scheduled_'
            /\ thr[t].cseq = num_compac_scheduled_']_vars

\* Flush(wait = false) found the active buffer empty behind a compaction of
\* the pool and has returned OK: both compactions are complete.
C25_Witness ==
  /\ thr["f1"].pc = "idle" /\ thr["f1"].op = "Flush" /\ ~thr["f1"].wait
  /\ thr["f1"].ret = OK /\ thr["f1"].cseq >= 2
  /\ num_compac_completed_ = num_compac_scheduled_
  /\ \E j \in 1..Len(log) : log[j].recs # <<>>

\* The places (table, position) of the log where a record with value v is.
PlacesOf(v) ==
  {<<j, i>> \in (1..Len(log)) \X (1..BufBudget) :
     i <= Len(log[j].recs) /\ log[j].recs[i].val = v}

\* C26: with a single foreground writer, when Finish has returned OK the
\* inputs of the completed compactions, in sequence order, hold every record
\* whose Add returned OK exactly once and in program order: each accepted
\* record is at one place of the log with its key, the tables hold nothing
\* else, a later table holds only later records, and inside a table records
\* with one key are in the order they were added.
C26_AcceptedOnceInOrder ==
  (dir.finished /\ dir.status = OK) =>
    /\ \A n \in 1..Len(appended) :
         /\ Cardinality(PlacesOf(appended[n].val)) = 1
         /\ \A p \in PlacesOf(appended[n].val) :
              log[p[1]].recs[p[2]].key = appended[n].key
    /\ \A j \in 1..Len(log) : \A i \in 1..Len(log[j].recs) :
         \E n \in 1..Len(appended) : appended[n].val = log[j].recs[i].val
    /\ \A n, m \in 1..Len(appended) :
         n < m => \A p \in PlacesOf(appended[n].val),
                     q \in PlacesOf(appended[m].val) :
                    \/ p[1] < q[1]
                    \/ /\ p[1] = q[1]
                       /\ appended[n].key = appended[m].key => p[2] < q[2]
    /\ \A j \in 1..Len(log) : j = 1 \/ log[j - 1].cseq < log[j].cseq

\* Finish has returned OK after three accepted records that went through a
\* buffer swap on a full buffer and an inline compaction of an empty one.
C26_Witness ==
  /\ dir.finished /\ dir.status = OK /\ Len(appended) = 3
  /\ \E i, j, e \in 1..Len(log) :
       /\ i < j /\ Len(log[i].recs) = 2 /\ log[j].recs # <<>>
       /\ log[e].recs = <<>>

(***************************************************************************)
(* Several foreground threads sharing one partition: each locks mu_ around *)
(* its calls of __Add and __Flush.                                         *)
(***************************************************************************)
Callers == {"f1", "f2"}
\* Calls the foreground threads make in all.
MaxMultiCalls == 3

InitMulti ==
  /\ num_compac_scheduled_ = 0
  /\ num_compac_completed_ = 0
  /\ finished_ = FALSE
  /\ num_bg_compactions_ = 0
  /\ bg_status_ = OK
  /\ membuf_ = 1
  /\ bufs_ = <<2>>
  /\ mu = NoThread
  /\ cvq = {}
  /\ thr = [t \in Callers \cup Workers |-> IdleThread]
  /\ wbuf = [b \in Bufs |-> <<>>]
  /\ pool = <<>>
  /\ log = <<>>
  /\ datalog = <<>>
  /\ nsync = 0
  /\ closed = FALSE
  /\ durable = 0
  /\ ncalls = 0
  /\ hist = <<>>
  /\ dir = NewDir(TRUE, 0)
  /\ appended = <<>>
  /\ got = NoRead
  /\ ft = NoFilter
  /\ side = NoSide
  /\ wb = NoBuf
  /\ cli = NoCli

\* The spare list DoCompaction leaves to the Prepare it returns into, which
\* takes bufs_.back() whatever the nested Prepare has done.
SpareLeft(t) ==
  LET bufs1 == Append(bufs_, thr[t].immbuf)
      wbuf1 == [wbuf EXCEPT ![thr[t].immbuf] = <<>>]
  IN IF PrepareBranch(thr[t].cstatus, FALSE, HasRoom(wbuf1[membuf_], NoRec),
                      FALSE) = "switch"
     THEN SpareAfterSwitch(bufs1) ELSE bufs1

\* DoCompaction run inline returns into Prepare with bufs_ empty (the nested
\* Prepare has taken the only spare): bufs_.back() and pop_back() on an
\* empty container are undefined.  The process aborts (b = 0) or goes on
\* with some buffer b as membuf_.
BackOfEmpty(t, b) ==
  /\ t \in Callers
  /\ thr[t].pc = "compacted"
  /\ mu = NoThread
  /\ SpareLeft(t) = <<>>
  /\ LET me == thr[t]
     IN /\ num_compac_completed_' = Completed(num_compac_completed_)
        /\ bg_status_' = LatchedStatus(bg_status_, me.cstatus)
        /\ wbuf' = [wbuf EXCEPT ![me.immbuf] = <<>>]
        /\ hist' = Append(hist, [cseq |-> me.cseq, status |-> me.cstatus])
        /\ num_compac_scheduled_' = num_compac_scheduled_ + 1
        /\ pool' = Append(pool, [immbuf |-> membuf_,
                                 cseq |-> num_compac_scheduled_ + 1])
        /\ cvq' = Signalled(cvq)
        /\ bufs_' = <<>>
        /\ IF b = 0
           THEN /\ Goto(t, [me EXCEPT !.pc = "aborted"])
                /\ membuf_' = membuf_
           ELSE /\ Goto(t, [me EXCEPT !.pc = "prepare"])
                /\ membuf_' = b
  /\ UNCHANGED <<num_bg_compactions_, finished_, log, datalog, nsync, closed,
                 durable, ncalls, dirvars>>

NextMulti ==
  \/ \E t \in Callers, p \in Payloads :
       ncalls < MaxMultiCalls /\ CallAdd(t, p)
  \/ \E t \in Callers, wait \in BOOLEAN :
       ncalls < MaxMultiCalls /\ CallFlush(t, wait)
  \/ \E t \in Callers : AddEntry(t)
  \/ \E t \in Callers : AddTail(t)
  \/ \E t \in Callers : FlushEntry(t)
  \/ \E t \in Callers : FlushTail(t)
  \/ \E t \in Callers : Prepare(t)
  \/ \E t \in Callers : CvWake(t)
  \/ \E t \in Callers : WaitFor(t)
  \/ \E w \in Workers : BGWork(w)
  \/ \E t \in Callers \cup Workers : Compact(t, TRUE)
  \/ \E t \in Callers \cup Workers :
       (t \in Callers => SpareLeft(t) # <<>>) /\ DoCompactionEnd(t)
  \/ \E t \in Callers, b \in {0} \cup Bufs : BackOfEmpty(t, b)

SpecMulti == InitMulti /\ [][NextMulti]_vars

\* Buffer b has been taken by TryScheduleCompaction and is not yet cleared
\* and pushed back.
UnderCompaction(b) ==
  \/ \E i \in 1..Len(pool) : pool[i].immbuf = b
  \/ \E t \in DOMAIN thr :
       thr[t].pc \in {"compact", "compacted"} /\ thr[t].immbuf = b

\* C27: no record is appended to a buffer while it is being compacted.
\* From the step in which TryScheduleCompaction takes a buffer to the step
\* that clears it and pushes it back, the buffer's contents do not change,
\* whichever threads call Add and Flush meanwhile, and what Clear discards
\* is what the compaction has written.
C27_NoAddWhileCompacting ==
  [][\A b \in Bufs : UnderCompaction(b) =>
       \/ wbuf'[b] = wbuf[b]
       \/ \E t \in DOMAIN thr :
            /\ thr[t].pc = "compacted" /\ thr[t].immbuf = b
            /\ thr'[t].pc # "compacted"
            /\ wbuf'[b] = <<>>
            /\ thr[t].cstatus = OK =>
                 \E j \in 1..Len(log) : /\ log[j].cseq = thr[t].cseq
                                        /\ log[j].recs = FinishAndSort(wbuf[b])]_vars

\* mu_ is free and no caller is inside a compaction it runs inline, where
\* Prepare is between TryScheduleCompaction and its switch of membuf_.
Quiescent ==
  /\ mu = NoThread
  /\ \A t \in FgThreads : thr[t].pc \notin {"compact", "compacted"}

\* The buffers on the spare list and the buffers under compaction.
Spare == {bufs_[i] : i \in 1..Len(bufs_)}
Compacting == {b \in Bufs : UnderCompaction(b)}

\* C28: at every quiescent point each buffer of the partition has exactly one
\* role: it is the active buffer, on the spare list or under compaction.  No
\* buffer is in two roles or twice in one, none is lost
\* (1 + |bufs_| + compactions in flight = NumBufs), and the spare list is
\* empty only while a compaction is in flight.
C28_BuffersPartitioned ==
  Quiescent =>
    /\ membuf_ \in Bufs
    /\ Cardinality(Spare) = Len(bufs_)
    /\ Cardinality(Compacting) = InFlight
    /\ membuf_ \notin Spare \cup Compacting
    /\ Spare \cap Compacting = {}
    /\ {membuf_} \cup Spare \cup Compacting = Bufs
    /\ 1 + Len(bufs_) + InFlight = NumBufs
    /\ num_bg_compactions_ = InFlight
    /\ bufs_ = <<>> => InFlight > 0

\* No call is in progress, the spare list is empty and the other buffer is
\* with the pool.
C28_Witness ==
  /\ Quiescent /\ thr["f1"].pc = "idle"
  /\ bufs_ = <<>> /\ Compacting # {} /\ hist # <<>>

\* Thread t, in __Finish, calls SyncBackend(true) in this step.
CloseInvoked(t) ==
  thr[t].op = "Finish" /\ thr[t].pc = "sync" /\ thr'[t].pc = "syncio"

\* The first __Finish returns in this step.
FirstFinishReturns(t) ==
  Returning(t) /\ thr[t].op = "Finish" /\ ~finished_

\* The backend is closed only by a __Finish that finds finished_ unset, has
\* scheduled a compaction of the active buffer and has seen it and every
\* other compaction complete.
ClosedOnlyWhenDrained ==
  \A t \in FgThreads :
    CloseInvoked(t) =>
      /\ ~finished_
      /\ thr[t].seq # 0 /\ num_compac_completed_ >= thr[t].seq
      /\ InFlight = 0 /\ num_bg_compactions_ = 0

C30_SyncFailureLatched ==
  [][/\ \A t \in FgThreads :
          (thr[t].op = "Sync" /\ thr[t].pc = "synced"
             /\ thr[t].status = SyncError /\ thr'[t].pc # "synced") =>
            bg_status_' = SyncError /\ thr'[t].ret = SyncError
     /\ bg_status_ = SyncError =>
          /\ bg_status_' = SyncError
          /\ wbuf' = wbuf
          /\ num_compac_scheduled_' = num_compac_scheduled_
          /\ pool' = pool
          /\ \A t \in Threads : thr'[t].pc \notin {"syncio", "compact"}
          /\ \A t \in FgThreads :
               (Returning(t) /\ thr[t].op \in {"Add", "Flush", "Sync"}) =>
                 thr'[t].ret = SyncError]_vars

\* After a Sync whose backend call failed, an Add has been refused with the
\* stored error while the record added before the Sync is still buffered.
C30_Witness ==
  /\ bg_status_ = SyncError
  /\ thr["f1"].op = "Add" /\ thr["f1"].pc = "idle" /\ thr["f1"].ret = SyncError
  /\ Len(wbuf[membuf_]) = 1

(***************************************************************************)
(* Records of any size: a record may be larger than a whole buffer.        *)
(***************************************************************************)
\* Compactions a run may schedule (num_compac_scheduled_ is not bounded by
\* the number of calls once a record does not fit an empty buffer).
MaxCompactions == 5

\* The payload of a record that does not fit an empty buffer.
TooBig == BufBudget
AnyPayloads == Payloads \cup {TooBig}

\* One iteration of the loop of Prepare, while the run may schedule.
PrepareCapped(t) == num_compac_scheduled_ < MaxCompactions /\ Prepare(t)

NextBig ==
  \/ \E t \in FgThreads, p \in AnyPayloads : CallAdd(t, p)
  \/ \E t \in FgThreads : AddEntry(t)
  \/ \E t \in FgThreads : AddTail(t)
  \/ \E t \in FgThreads : PrepareCapped(t)
  \/ \E t \in FgThreads : CvWake(t)
  \/ \E w \in Workers : BGWork(w)
  \/ \E t \in Threads, ok \in BOOLEAN : Compact(t, ok)
  \/ \E t \in Threads : DoCompactionEnd(t)

SpecBig == Init /\ [][NextBig]_vars

\* C31: Add terminates for every record size.  The loop of Prepare makes
\* progress: once the Add has switched buffers, an empty active buffer has
\* room for its record, so that Prepare leaves its loop instead of compacting
\* empty buffers inline again and again.
C31_AddTerminates ==
  \A t \in FgThreads :
    (/\ thr[t].op = "Add" /\ thr[t].pc = "prepare" /\ mu = t
     /\ thr[t].seq # 0 /\ bg_status_ = OK /\ IsEmpty(wbuf[membuf_])) =>
      HasRoom(wbuf[membuf_], thr[t].rec)

\* Thread t is in DoCompaction with Compact returned and completes the
\* compaction in this step.
Completes(t) == thr[t].pc = "compacted" /\ thr'[t].pc # "compacted"

\* C39: whenever a compaction completes, bg_status_ is still OK
\* (assert(bg_status_.ok()) in DoCompaction holds), so the status stored is
\* the one a latch that keeps an earlier error would store, and a latched
\* error is never replaced by OK.
C39_CompletionFindsStatusOK ==
  [][/\ \A t \in Threads :
          Completes(t) =>
            /\ bg_status_ = OK
            /\ bg_status_' = IF bg_status_ = OK THEN thr[t].cstatus
                             ELSE bg_status_
     /\ bg_status_ # OK => bg_status_' # OK]_vars

\* A compaction scheduled after a Sync has returned is about to complete
\* with an error, after an earlier one completed with OK.
C39_Witness ==
  \E w \in Workers :
    /\ thr[w].pc = "compacted" /\ thr[w].cstatus = IOError
    /\ nsync >= 1 /\ hist # <<>>

(***************************************************************************)
(* MDS::CLI, the metadata client: one thread calls the public operations   *)
(* on the path /a/x.  ResolvePath looks "a" up in the root directory; the  *)
(* operation then works on the name "x" in directory a.                    *)
(***************************************************************************)
\* Public operations the caller makes in all.
MaxOps == 2
\* RPCs one call of an _Op may send before the model stops counting.
MaxRpcs == 3
\* The clock, in microseconds, runs up to MaxNow.
MaxNow == 3

\* Values of max_redirects_allowed_.
RedirectBudgets == {-1, 0, 1, 2}
\* Lease due times a server returns for a lookup (0: no lease).
Leases == {0, 11, 12, 13}
MetaOps ==
  {"Fstat", "Fcreat", "Unlink", "Mkdir", "Chmod", "Ftruncate", "Listdir",
   "Accessdir", "Access"}
\* Listdir and Accessdir have no MutexLock; Access locks in its Fstat.
TakesMutexLock(op) == op \notin {"Listdir", "Accessdir"}
\* Servers the directory index of a spreads its partitions over.
ListServers == {1, 2}
Corruption == "Corruption"

NewCli(max) ==
  [pc |-> "idle", op |-> "none", stage |-> "none", held |-> FALSE, s |-> OK,
   lc |-> [present |-> FALSE, due |-> 0], hset |-> FALSE, cached |-> FALSE,
   lpins |-> 0, ix |-> {}, ipins |-> 0, now |-> 0, remaining |-> 0,
   rpcs |-> 0, tmp |-> FALSE, ret |-> 0, viol |-> {},
   left |-> {}, lsterr |-> FALSE, max |-> max, nops |-> 0]

\* mutex_.AssertHeld()
AssertHeld(c) ==
  IF c.held THEN c ELSE [c EXCEPT !.viol = @ \cup {"AssertHeld"}]

\* mutex_.Unlock().  Unlocking a mutex the thread does not hold is undefined:
\* the call aborts the process or goes on with the mutex unlocked.
Unlock(c, abort) ==
  IF c.held THEN [c EXCEPT !.held = FALSE]
  ELSE IF abort THEN [c EXCEPT !.pc = "aborted", !.viol = @ \cup {"Unlock"}]
  ELSE [c EXCEPT !.viol = @ \cup {"Unlock"}]

\* mutex_.Lock(): a thread that locks the mutex it holds blocks for ever.
Lock(c) ==
  IF c.held THEN [c EXCEPT !.pc = "deadlock"] ELSE [c EXCEPT !.held = TRUE]

\* A lookup that always asks the server.
NeedsNewLease_Always(present, now, due) == TRUE

\* Lookup: "Ask for a new lookup state lease only if we don't have one yet
\* or the one we current have has expired".
NeedsNewLease(present, now, due) == ~present \/ (now + 10) > due

\* --remaining_redirects == 0, on the value after the decrement.
Exhausted(remaining) == remaining = 0

MdsFrame ==
  UNCHANGED <<dbvars, mu, cvq, thr, wbuf, pool, log, datalog, nsync, closed,
              durable, ncalls, hist, dir, appended, got, ft, side, wb>>

\* The directory whose index is fetched: the root for the lookup of "a",
\* directory a for the operation itself.
IndexDir(c) == IF c.stage = "lookup" THEN "root" ELSE "a"

\* A public operation is called: its MutexLock, if it has one, locks mutex_.
OpStart(op) ==
  /\ cli.pc = "idle" /\ cli.nops < MaxOps
  /\ LET c0 == [cli EXCEPT !.op = op, !.nops = @ + 1, !.s = OK,
                           !.hset = FALSE, !.cached = FALSE, !.rpcs = 0,
                           !.tmp = FALSE, !.lsterr = FALSE,
                           !.stage = IF op = "Ftruncate" THEN "final"
                                     ELSE "lookup",
                           !.pc = IF op = "Ftruncate" THEN "fetch"
                                  ELSE "resolve"]
     IN cli' = IF TakesMutexLock(op) THEN Lock(c0) ELSE c0
  /\ MdsFrame

\* ResolvePath up to the Lookup of the first component.
ResolvePath ==
  /\ cli.pc = "resolve"
  /\ cli' = AssertHeld([cli EXCEPT !.pc = "lookup"])
  /\ MdsFrame

\* Lookup up to its decision: take the cached entry or ask the server.
LookupCached ==
  /\ cli.pc = "lookup"
  /\ LET c0 == AssertHeld(cli)
         c1 == [c0 EXCEPT !.hset = cli.lc.present,
                          !.lpins = IF cli.lc.present THEN @ + 1 ELSE @]
     IN cli' = IF NeedsNewLease(cli.lc.present, cli.now, cli.lc.due)
               THEN [c1 EXCEPT !.pc = "fetch"]
               ELSE [c1 EXCEPT !.pc = "looked", !.cached = TRUE]
  /\ MdsFrame

\* Where a caller of FetchIndex goes on when it has its index handle.
AfterFetch(c, abort) ==
  IF c.stage = "lookup" THEN [c EXCEPT !.pc = "rpcbegin"]
  ELSE IF c.op = "Listdir"
  THEN Unlock([c EXCEPT !.pc = "listrpc", !.left = ListServers], abort)
  ELSE IF c.op = "Ftruncate"
  THEN Unlock([c EXCEPT !.pc = "rpc", !.remaining = c.max], abort)
  ELSE [c EXCEPT !.pc = "rpcbegin"]

\* Where a caller of FetchIndex goes on when FetchIndex has failed.
FetchFailed(c) ==
  IF c.stage = "lookup" THEN [c EXCEPT !.pc = "looked"]
  ELSE [c EXCEPT !.pc = "return"]

\* FetchIndex: a hit in the index cache returns a handle; a miss unlocks
\* mutex_ for the Readidx RPC.
FetchIndex(abort) ==
  /\ cli.pc = "fetch"
  /\ LET c0 == AssertHeld(cli)
     IN cli' = IF IndexDir(cli) \in cli.ix
               THEN AfterFetch([c0 EXCEPT !.ipins = @ + 1], abort)
               ELSE Unlock([c0 EXCEPT !.pc = "readidx"], abort)
  /\ MdsFrame

\* The Readidx RPC returns; FetchIndex locks mutex_ and inserts the index.
Readidx(ok, abort) ==
  /\ cli.pc = "readidx"
  /\ LET c0 == IF cli.held THEN [cli EXCEPT !.viol = @ \cup {"RpcHeld"}]
               ELSE cli
         c1 == Lock(c0)
     IN cli' = IF c1.pc = "deadlock" THEN c1
               ELSE IF ok
               THEN AfterFetch([c1 EXCEPT !.ix = @ \cup {IndexDir(cli)},
                                          !.ipins = @ + 1], abort)
               ELSE FetchFailed([c1 EXCEPT !.s = IOError])
  /\ MdsFrame

\* _Lookup, _Fstat, _Fcreat, _Unlink, _Mkdir, _Chmod up to their loop.
RpcBegin(abort) ==
  /\ cli.pc = "rpcbegin"
  /\ cli' = Unlock([AssertHeld(cli) EXCEPT !.pc = "rpc", !.rpcs = 0,
                                           !.tmp = FALSE,
                                           !.remaining = cli.max], abort)
  /\ MdsFrame

\* One round of the loop: the RPC goes to the server the latest index names
\* and is answered, or the server throws a Redirect, which the client merges
\* into tmp_idx (merged: tmp_idx->Update(re) returned true).
SendRpc(ans, lease) ==
  /\ cli.pc = "rpc" /\ cli.rpcs < MaxRpcs
  /\ ans \in {"ok", "error"} \/ lease = 0
  /\ LET c0 == [cli EXCEPT !.rpcs = @ + 1,
                           !.viol = IF cli.held THEN @ \cup {"RpcHeld"} ELSE @]
         rem == cli.remaining - 1
     IN cli' =
          CASE ans = "ok" -> [c0 EXCEPT !.s = OK, !.ret = lease, !.pc = "rpcend"]
            [] ans = "error" -> [c0 EXCEPT !.s = IOError, !.pc = "rpcend"]
            [] OTHER ->
                 IF Exhausted(rem) \/ ans = "unmerged"
                 THEN [c0 EXCEPT !.tmp = TRUE, !.remaining = rem,
                                 !.s = Corruption, !.pc = "rpcend"]
                 ELSE [c0 EXCEPT !.tmp = TRUE, !.remaining = rem]
  /\ MdsFrame

\* The loop is over: lock mutex_, keep or drop tmp_idx, and go back to the
\* caller, which releases its index handle; Lookup first inserts the new
\* lookup state and erases it again when it carries no lease.
RpcEnd ==
  /\ cli.pc = "rpcend"
  /\ LET c0 == Lock(cli)
         c1 == [c0 EXCEPT !.ix = IF cli.tmp /\ cli.s = OK
                                 THEN @ \cup {IndexDir(cli)} ELSE @,
                          !.ipins = @ - 1]
     IN cli' =
          IF c0.pc = "deadlock" THEN c0
          ELSE IF cli.stage = "final" THEN [c1 EXCEPT !.pc = "return"]
          ELSE IF cli.s = OK
          THEN [c1 EXCEPT !.pc = "looked", !.hset = TRUE, !.lpins = @ + 1,
                          !.lc = [present |-> cli.ret # 0, due |-> cli.ret]]
          ELSE [c1 EXCEPT !.pc = "looked"]
  /\ MdsFrame

\* ResolvePath after Lookup: release the lookup handle when Lookup returned
\* OK, else break out of the loop.  With the path resolved the operation
\* fetches the index of directory a; Accessdir is done.
Looked ==
  /\ cli.pc = "looked"
  /\ cli' = IF cli.s = OK
            THEN [cli EXCEPT !.lpins = @ - 1, !.hset = FALSE,
                             !.stage = "final",
                             !.pc = IF cli.op = "Accessdir" THEN "return"
                                    ELSE "fetch"]
            ELSE [cli EXCEPT !.pc = "return"]
  /\ MdsFrame

\* Listdir sends its RPC to a server it has not visited; the status the
\* server returns is not looked at.
ListRpc(server, ok) ==
  /\ cli.pc = "listrpc" /\ server \in cli.left
  /\ cli' = [cli EXCEPT !.left = @ \ {server},
                        !.lsterr = @ \/ ~ok,
                        !.viol = IF cli.held THEN @ \cup {"RpcHeld"} ELSE @,
                        !.pc = IF cli.left = {server} THEN "listend" ELSE @]
  /\ MdsFrame

\* Listdir after its loop: lock mutex_ and release the index handle.
ListEnd ==
  /\ cli.pc = "listend"
  /\ LET c0 == Lock(cli)
     IN cli' = IF c0.pc = "deadlock" THEN c0
               ELSE [c0 EXCEPT !.ipins = @ - 1, !.pc = "return"]
  /\ MdsFrame

\* The operation returns; a MutexLock unlocks mutex_ in its destructor.
OpReturn(abort) ==
  /\ cli.pc = "return"
  /\ cli' = IF TakesMutexLock(cli.op)
            THEN Unlock([cli EXCEPT !.pc = "idle"], abort)
            ELSE [cli EXCEPT !.pc = "idle"]
  /\ MdsFrame

\* Time passes between two operations.
Tick ==
  /\ cli.pc = "idle" /\ cli.now < MaxNow
  /\ cli' = [cli EXCEPT !.now = @ + 1]
  /\ MdsFrame

InitMds ==
  /\ num_compac_scheduled_ = 0
  /\ num_compac_completed_ = 0
  /\ finished_ = FALSE
  /\ num_bg_compactions_ = 0
  /\ bg_status_ = OK
  /\ membuf_ = 1
  /\ bufs_ = <<2>>
  /\ mu = NoThread
  /\ cvq = {}
  /\ thr = [t \in Threads |-> IdleThread]
  /\ wbuf = [b \in Bufs |-> <<>>]
  /\ pool = <<>>
  /\ log = <<>>
  /\ datalog = <<>>
  /\ nsync = 0
  /\ closed = FALSE
  /\ durable = 0
  /\ ncalls = 0
  /\ hist = <<>>
  /\ dir = NewDir(TRUE, 0)
  /\ appended = <<>>
  /\ got = NoRead
  /\ ft = NoFilter
  /\ side = NoSide
  /\ wb = NoBuf
  /\ \E max \in RedirectBudgets : cli = NewCli(max)

NextMds ==
  \/ \E op \in MetaOps : OpStart(op)
  \/ ResolvePath
  \/ LookupCached
  \/ \E abort \in BOOLEAN : FetchIndex(abort)
  \/ \E ok \in BOOLEAN, abort \in BOOLEAN : Readidx(ok, abort)
  \/ \E abort \in BOOLEAN : RpcBegin(abort)
  \/ \E ans \in {"ok", "error", "redirect", "unmerged"}, lease \in Leases :
       SendRpc(ans, lease)
  \/ RpcEnd
  \/ Looked
  \/ \E server \in ListServers, ok \in BOOLEAN : ListRpc(server, ok)
  \/ ListEnd
  \/ \E abort \in BOOLEAN : OpReturn(abort)
  \/ Tick

SpecMds == InitMds /\ [][NextMds]_vars

\* The larger of two integers.
Larger(a, b) == IF a >= b THEN a ELSE b

\* C32: a call of a metadata operation sends at most
\* max(1, max_redirects_allowed_) RPCs, whatever integer
\* max_redirects_allowed_ is.
C32_RpcsBounded == cli.rpcs <= Larger(1, cli.max)

\* C33: Lookup asks the server only if the lookup cache has no entry for the
\* name or the lease of the cached entry is due less than 10 microseconds
\* from now; otherwise it returns the cached entry with status OK, without
\* fetching a directory index and without an RPC.
C33_LookupUsesLease ==
  [][cli.pc = "lookup" =>
       /\ cli'.pc = "fetch" =>
            ~cli.lc.present \/ cli.lc.due - cli.now < 10
       /\ cli'.pc # "fetch" =>
            /\ cli.lc.present /\ cli.lc.due - cli.now >= 10
            /\ cli'.pc = "looked" /\ cli'.cached /\ cli'.hset
            /\ cli'.s = OK /\ cli'.lc = cli.lc
            /\ cli'.ix = cli.ix /\ cli'.ipins = cli.ipins
            /\ cli'.rpcs = cli.rpcs]_vars

\* C33 witness: a later call finds the lease of the cached entry still good
\* and takes the entry from the cache.
C33_Witness ==
  /\ cli.pc = "looked" /\ cli.cached /\ cli.nops = 2
  /\ cli.lc.present /\ cli.now > 0 /\ cli.rpcs = 0

\* C34: every public metadata operation holds mutex_ where it asserts so and
\* where it unlocks it, holds it during no RPC, and has released it when it
\* returns.
C34_MutexDiscipline ==
  /\ cli.viol = {}
  /\ cli.pc \in {"readidx", "rpc", "listrpc"} => ~cli.held
  /\ cli.pc = "idle" => ~cli.held

\* C35: when a public metadata operation has returned, every lookup-cache
\* handle and every index-cache handle it acquired has been released, once.
C35_HandlesReleased ==
  cli.pc = "idle" => cli.lpins = 0 /\ cli.ipins = 0

\* C37: Listdir returns OK only if every Listdir RPC it sent succeeded.
C37_ListdirReportsRpcFailure ==
  (cli.pc = "return" /\ cli.op = "Listdir" /\ cli.s = OK /\ cli.left = {}
   /\ cli.stage = "final") => ~cli.lsterr

(***************************************************************************)
(* ResolvePath on its own: absolute paths of names, "." and ".." in a      *)
(* namespace where every lookup succeeds and is permitted.  A directory id *)
(* is the sequence of names that leads to the directory from the root.     *)
(***************************************************************************)
\* Components of the longest path resolved.
MaxPathLen == 5
PathNames == {"a", "b"}
Components == PathNames \cup {".", ".."}
Paths == UNION {[1..n -> Components] : n \in 1..MaxPathLen}
RootId == <<>>
\* result as ResolvePath initialises it: the root directory.
RootInfo == [pid |-> RootId, name |-> "/"]

\* The directory id the server returns for a name in a directory.
LookupId(pid, name) == Append(pid, name)

\* The names left of a path after "." is dropped and ".." has removed the
\* name before it; ".." at the root stays at the root.
RECURSIVE Normalized(_)
Normalized(path) ==
  IF path = <<>> THEN <<>>
  ELSE LET front == Normalized(SubSeq(path, 1, Len(path) - 1))
           last == path[Len(path)]
       IN IF last = "." THEN front
          ELSE IF last = ".."
          THEN IF front = <<>> THEN <<>>
               ELSE SubSeq(front, 1, Len(front) - 1)
          ELSE Append(front, last)

\* What ResolvePath is to return for a path of the given names.
InfoOf(names) ==
  IF names = <<>> THEN [pid |-> RootId, name |-> "/", depth |-> 0]
  ELSE [pid |-> SubSeq(names, 1, Len(names) - 1),
        name |-> names[Len(names)], depth |-> Len(names)]

\* ResolvePath is called with a path: parents holds two copies of result.
InitPath ==
  /\ num_compac_scheduled_ = 0
  /\ num_compac_completed_ = 0
  /\ finished_ = FALSE
  /\ num_bg_compactions_ = 0
  /\ bg_status_ = OK
  /\ membuf_ = 1
  /\ bufs_ = <<2>>
  /\ mu = NoThread
  /\ cvq = {}
  /\ thr = [t \in Threads |-> IdleThread]
  /\ wbuf = [b \in Bufs |-> <<>>]
  /\ pool = <<>>
  /\ log = <<>>
  /\ datalog = <<>>
  /\ nsync = 0
  /\ closed = FALSE
  /\ durable = 0
  /\ ncalls = 0
  /\ hist = <<>>
  /\ dir = NewDir(TRUE, 0)
  /\ appended = <<>>
  /\ got = NoRead
  /\ ft = NoFilter
  /\ side = NoSide
  /\ wb = NoBuf
  /\ \E path \in Paths :
       cli = [pc |-> "path", path |-> path, input |-> path,
              result |-> RootInfo, parents |-> <<RootInfo, RootInfo>>,
              depth |-> 0]

\* One round of the for loop: the next component, which is not the last.
\* parents[i] of the code is cli.parents[i + 1].
ResolveName ==
  /\ cli.pc = "path" /\ Len(cli.input) > 1
  /\ LET name == Head(cli.input)
         rest == Tail(cli.input)
     IN cli' =
          IF name = ".."
          THEN [cli EXCEPT !.input = rest,
                           !.result = cli.parents[cli.depth + 2],
                           !.depth = IF @ > 0 THEN @ - 1 ELSE @]
          ELSE IF name = "."
          THEN [cli EXCEPT !.input = rest]
          ELSE LET named == [cli.result EXCEPT !.name = name]
               IN [cli EXCEPT !.input = rest,
                              !.depth = @ + 1,
                              !.parents = Append(@, named),
                              !.result = [named EXCEPT
                                            !.pid = LookupId(@, name)]]
  /\ MdsFrame

\* The last component, after the loop.
ResolveLast ==
  /\ cli.pc = "path" /\ Len(cli.input) = 1
  /\ LET name == Head(cli.input)
     IN cli' =
          IF name = ".."
          THEN [cli EXCEPT !.pc = "resolved", !.input = <<>>,
                           !.result = cli.parents[cli.depth + 1],
                           !.depth = IF @ > 0 THEN @ - 1 ELSE @]
          ELSE IF name = "."
          THEN [cli EXCEPT !.pc = "resolved", !.input = <<>>,
                           !.result = cli.parents[cli.depth + 2]]
          ELSE [cli EXCEPT !.pc = "resolved", !.input = <<>>,
                           !.result = [@ EXCEPT !.name = name],
                           !.depth = @ + 1]
  /\ MdsFrame

NextPath ==
  \/ ResolveName
  \/ ResolveLast

SpecPath == InitPath /\ [][NextPath]_vars

\* C36: ResolvePath returns the parent directory id, the final name and the
\* depth of the lexically normalized path.
C36_ResolvesLikeNormalized ==
  cli.pc = "resolved" =>
    LET want == InfoOf(Normalized(cli.path))
    IN /\ cli.result.pid = want.pid
       /\ cli.result.name = want.name
       /\ cli.depth = want.depth

(***************************************************************************)
(* Mkdir with create_if_missing: one client, a server that answers every   *)
(* RPC, and a namespace nobody else changes.  The directories of the       *)
(* target's path exist down to some level; the directories there from the  *)
(* start let the caller search and write them, the directories the call    *)
(* creates carry the mode of the call and belong to the caller.            *)
(***************************************************************************)
\* Components of the longest path given to Mkdir.
MaxMkdirDepth == 3
MkdirPaths == UNION {[1..n -> PathNames] : n \in 1..MaxMkdirDepth}
NotFound == "NotFound"
AccessDenied == "AccessDenied"
\* What a mode lets the caller do with a directory the caller owns.
Modes == [w : BOOLEAN, x : BOOLEAN]

Prefix(path, n) == SubSeq(path, 1, n)

\* IsLookupOk: uid_ == 0 or a search bit of the directory's mode applies.
IsLookupOk(c, d) == c.root \/ d \notin c.made \/ c.mode.x

\* IsWriteDirOk: uid_ == 0 or a write bit of the directory's mode applies.
IsWriteDirOk(c, d) == c.root \/ d \notin c.made \/ c.mode.w

\* ResolvePath of a path of names from its i-th component on: the status
\* and, for NotFound, missing_parent (the path through the missing name).
RECURSIVE ResolveFrom(_, _, _)
ResolveFrom(c, path, i) ==
  IF ~IsLookupOk(c, Prefix(path, i - 1))
  THEN [s |-> AccessDenied, missing |-> <<>>]
  ELSE IF i = Len(path) THEN [s |-> OK, missing |-> <<>>]
  ELSE IF Prefix(path, i) \notin c.dirs
  THEN [s |-> NotFound, missing |-> Prefix(path, i)]
  ELSE ResolveFrom(c, path, i + 1)

\* A Mkdir that descends into missing_parent but does not retry the request.
MkdirReturned_NoRetry(c) ==
  IF c.stack = <<>> THEN [c EXCEPT !.pc = "done"]
  ELSE [c EXCEPT !.stack = PopBack(@), !.pc = "ret"]

\* The topmost call of Mkdir has returned status c.s to its caller: the
\* outermost caller, a Mkdir that had called it for missing_parent and now
\* retries its request, or a Mkdir that returns the status of its retry.
MkdirReturned(c) ==
  IF c.stack = <<>> THEN [c EXCEPT !.pc = "done"]
  ELSE LET top == Back(c.stack)
       IN IF top.at = "parent" /\ c.s = OK
          THEN [c EXCEPT !.stack = Append(PopBack(@) \o
                                          <<[top EXCEPT !.at = "retry"]>>,
                                          [path |-> top.path, at |-> "start"]),
                         !.pc = "call"]
          ELSE [c EXCEPT !.stack = PopBack(@), !.pc = "ret"]

InitMkdir ==
  /\ num_compac_scheduled_ = 0
  /\ num_compac_completed_ = 0
  /\ finished_ = FALSE
  /\ num_bg_compactions_ = 0
  /\ bg_status_ = OK
  /\ membuf_ = 1
  /\ bufs_ = <<2>>
  /\ mu = NoThread
  /\ cvq = {}
  /\ thr = [t \in Threads |-> IdleThread]
  /\ wbuf = [b \in Bufs |-> <<>>]
  /\ pool = <<>>
  /\ log = <<>>
  /\ datalog = <<>>
  /\ nsync = 0
  /\ closed = FALSE
  /\ durable = 0
  /\ ncalls = 0
  /\ hist = <<>>
  /\ dir = NewDir(TRUE, 0)
  /\ appended = <<>>
  /\ got = NoRead
  /\ ft = NoFilter
  /\ side = NoSide
  /\ wb = NoBuf
  /\ \E path \in MkdirPaths, root \in BOOLEAN, mode \in Modes :
       \E k \in 0..(Len(path) - 1) :
         cli = [pc |-> "call", path |-> path, k |-> k, root |-> root,
                mode |-> mode, s |-> OK,
                stack |-> <<[path |-> path, at |-> "start"]>>,
                dirs |-> {Prefix(path, n) : n \in 0..k}, made |-> {},
                order |-> <<>>, mkdirs |-> 0]

\* Mkdir from its entry to its return or to its call of Mkdir for
\* missing_parent.
MkdirCall ==
  /\ cli.pc = "call"
  /\ LET top == Back(cli.stack)
         r == ResolveFrom(cli, top.path, 1)
         parent == Prefix(top.path, Len(top.path) - 1)
     IN cli' =
          IF r.s = NotFound
          THEN IF r.missing # <<>>
               THEN [cli EXCEPT !.stack =
                       Append(PopBack(@) \o <<[top EXCEPT !.at = "parent"]>>,
                              [path |-> r.missing, at |-> "start"])]
               ELSE [cli EXCEPT !.s = NotFound, !.stack = PopBack(@),
                                !.pc = "ret"]
          ELSE IF r.s # OK
          THEN [cli EXCEPT !.s = r.s, !.stack = PopBack(@), !.pc = "ret"]
          ELSE IF ~IsWriteDirOk(cli, parent)
          THEN [cli EXCEPT !.s = AccessDenied, !.stack = PopBack(@),
                           !.pc = "ret"]
          ELSE [cli EXCEPT !.s = OK, !.stack = PopBack(@), !.pc = "ret",
                           !.dirs = @ \cup {top.path},
                           !.made = @ \cup {top.path},
                           !.order = Append(@, top.path),
                           !.mkdirs = @ + 1]
  /\ MdsFrame

\* A call of Mkdir returns to its caller.
MkdirRet ==
  /\ cli.pc = "ret"
  /\ cli' = MkdirReturned(cli)
  /\ MdsFrame

NextMkdir ==
  \/ MkdirCall
  \/ MkdirRet

SpecMkdir == InitMkdir /\ [][NextMkdir]_vars /\ WF_vars(NextMkdir)

\* The call has created every directory of its path that was missing, the
\* ancestors top-down and the target last, with one Mkdir RPC for each.
CreatedAll ==
  /\ cli.s = OK
  /\ cli.order = [i \in 1..(Len(cli.path) - cli.k) |->
                    Prefix(cli.path, cli.k + i)]
  /\ cli.mkdirs = Len(cli.path) - cli.k
  /\ cli.dirs = {Prefix(cli.path, n) : n \in 0..Len(cli.path)}

\* The caller may search and write the directories the call creates.
MayUseCreated == cli.root \/ (cli.mode.w /\ cli.mode.x)

\* The call has to create an ancestor and may not use it afterwards: it
\* creates the topmost missing ancestor and is denied access to it.
DeniedAfterFirst ==
  /\ cli.s = AccessDenied
  /\ cli.order = <<Prefix(cli.path, cli.k + 1)>>
  /\ cli.mkdirs = 1

=============================================================================
